---------------------------- MODULE Spec2Model ----------------------------
(***************************************************************************)
(* DisasterSentinel: the multi-source normalisation and geospatial         *)
(* filtering pipeline (server/api/index.ts, usgs.ts, noaa.ts,              *)
(* openweathermap.ts, utils/alertUtils.ts).                                *)
(*                                                                         *)
(* Numbers.  JavaScript numbers are modelled in fixed point:               *)
(*   - latitudes / longitudes in tenths of a degree (1 = 0.1 degree);      *)
(*   - wind speed in tenths of m/s, rainfall in tenths of mm;              *)
(*   - earthquake magnitude in units of 0.0001;                            *)
(*   - radii in km, distances in metres.                                   *)
(* An optional value (a property that may be undefined) is a sequence of   *)
(* length 0 (undefined) or 1 (the value).                                  *)
(***************************************************************************)
EXTENDS Integers, Sequences, FiniteSets, TLC

VARIABLES
    apiKey,      \* OWM_API_KEY is a non-empty string (module constant, read at load)
    op,          \* per call: the exported function that is running
    pc,          \* per call: "idle", "pending", "resolved", "rejected"
    options,     \* per call: the options (or latitude / longitude) it was called with
    slots,       \* per call and feed: the promise of the adapter fetch
    received,    \* per call and feed: the upstream response the adapter got (optional)
    invoked,     \* per call: the adapter functions that were called
    requests,    \* per call: the upstream HTTP requests issued (axios.get), each with
                 \* the arguments its adapter was called with
    result,      \* per call: what the returned promise settled with
    disasters,   \* per call: the array handed to getDisasterStats, as it is after the call
    stats,       \* per call: what getDisasterStats returned (optional)
    query,       \* per call: req.query of the HTTP request that made it (optional)
    reply,       \* per call: the HTTP response the route handler sent (optional)
    distance     \* per call: what the three calculateDistance functions returned (optional)

vars == <<apiKey, op, pc, options, slots, received, invoked, requests, result,
          disasters, stats, query, reply, distance>>

-----------------------------------------------------------------------------
(* Optional values and JavaScript truthiness                                *)

None == <<>>
Some(x) == <<x>>
IsSome(o) == o # <<>>

\* The number NaN, where a number may be NaN: an integer that is no
\* coordinate, radius or distance of the model.
NaN == -999999

\* A JS number used as a condition: undefined, 0 and NaN are falsy.
TruthyNum(o) == IsSome(o) /\ o[1] # 0 /\ o[1] # NaN

\* A JS string used as a condition: undefined and "" are falsy.
TruthyStr(s) == Len(s) > 0

Range(s) == {s[i] : i \in 1..Len(s)}

-----------------------------------------------------------------------------
(* utils/alertUtils.ts: the two closed enumerations                         *)

DisasterType == [Earthquake |-> "earthquake", Flood |-> "flood",
                 Storm |-> "storm", Wildfire |-> "wildfire"]

AlertType == [Warning |-> "warning", Watch |-> "watch", Advisory |-> "advisory"]

DisasterTypes == {DisasterType.Earthquake, DisasterType.Flood,
                  DisasterType.Storm, DisasterType.Wildfire}

AlertTypes == {AlertType.Warning, AlertType.Watch, AlertType.Advisory}

-----------------------------------------------------------------------------
(* Number.prototype.toString and parseFloat on coordinates (tenths of a     *)
(* degree): 0 -> "0", 1 -> "0.1", 10 -> "1", -15 -> "-1.5".                 *)

Digit == <<"0", "1", "2", "3", "4", "5", "6", "7", "8", "9">>

RECURSIVE NatToString(_)
NatToString(n) ==
    IF n < 10 THEN Digit[n + 1]
    ELSE NatToString(n \div 10) \o Digit[(n % 10) + 1]

Abs(n) == IF n < 0 THEN -n ELSE n

NumberToString(n) ==
    LET a == Abs(n)
        whole == NatToString(a \div 10)
        frac == IF a % 10 = 0 THEN "" ELSE "." \o Digit[(a % 10) + 1]
    IN (IF n < 0 THEN "-" ELSE "") \o whole \o frac

DigitValue(ch) == CHOOSE d \in 0..9 : Digit[d + 1] = ch

IsDigit(ch) == \E d \in 0..9 : Digit[d + 1] = ch

CharAt(s, i) == SubSeq(s, i, i)

\* Value of the run of digits s[i..j] (0 for an empty run).
RECURSIVE DigitsValue(_, _, _)
DigitsValue(s, i, j) ==
    IF j < i THEN 0
    ELSE 10 * DigitsValue(s, i, j - 1) + DigitValue(CharAt(s, j))

\* End of the run of digits that starts at position i (i - 1 when there is none).
RECURSIVE DigitsEnd(_, _)
DigitsEnd(s, i) ==
    IF i <= Len(s) /\ IsDigit(CharAt(s, i)) THEN DigitsEnd(s, i + 1) ELSE i - 1

\* parseFloat of a coordinate string, in tenths of a degree: optional sign,
\* digits, optional "." and one fractional digit.  None models NaN.
ParseFloat(s) ==
    LET neg == Len(s) > 0 /\ CharAt(s, 1) = "-"
        b == IF neg THEN 2 ELSE 1
        e == DigitsEnd(s, b)
        hasFrac == e + 2 <= Len(s) /\ CharAt(s, e + 1) = "." /\ IsDigit(CharAt(s, e + 2))
        mag == 10 * DigitsValue(s, b, e)
               + (IF hasFrac THEN DigitValue(CharAt(s, e + 2)) ELSE 0)
    IN IF e < b THEN None ELSE Some(IF neg THEN -mag ELSE mag)

-----------------------------------------------------------------------------
(* Fixed-point arithmetic for the Haversine formula.  Angles are in         *)
(* micro-radians (scale 10^6).  Division rounds toward zero, so that every  *)
(* operation is sign-symmetric as IEEE arithmetic is.  The series used are  *)
(* accurate to about 0.1 % for |angles| up to 3.6 degrees, the range in     *)
(* which no intermediate value exceeds 2^31.                                 *)

Div(a, b) == IF a < 0 THEN -((-a) \div b) ELSE a \div b

Scale == 1000 * 1000

\* x * Math.PI / 180 for x in tenths of a degree (pi/1800 = 0.00174533).
ToRadians(x) == Div(x * 174533, 100)

\* Math.sin(x) = x - x^3/6
Sin(x) == x - Div(Div(x * x, Scale) * x, 6 * Scale)

\* Math.cos(x) = 1 - x^2/2 + x^4/24
Cos(x) ==
    LET q == Div(x * x, Scale)
    IN Scale - Div(q, 2) + Div(Div(q * q, Scale), 24)

RECURSIVE SqrtBetween(_, _, _)
SqrtBetween(n, lo, hi) ==
    IF lo >= hi THEN lo
    ELSE LET mid == (lo + hi + 1) \div 2
         IN IF mid * mid <= n THEN SqrtBetween(n, mid, hi)
            ELSE SqrtBetween(n, lo, mid - 1)

\* Math.sqrt on a non-negative integer: the largest r with r * r <= n.
Sqrt(n) == SqrtBetween(n, 0, 46340)

\* Math.atan2(y, x) for y >= 0 (scale 10^6) and x > 0 (scale 10^4), the only
\* quadrant calculateDistance uses: atan(t) = t - t^3/3 with t = y / x.
Atan2(y, x) ==
    LET t == Div(y * 10000, x)
    IN t - Div(Div(t * t, Scale) * t, 3 * Scale)

\* Earth radius in kilometres.
R == 6371

\* Faulty variant: the cosine of the first latitude is used twice.
calculateDistanceFirstLatitude(lat1, lon1, lat2, lon2) ==
    LET dLat == ToRadians(lat2 - lat1)
        dLon == ToRadians(lon2 - lon1)
        sLat == Sin(Div(dLat, 2))
        sLon == Sin(Div(dLon, 2))
        cc == Div(Div(Cos(ToRadians(lat1)), 100) * Div(Cos(ToRadians(lat1)), 100), 10000)
        a == sLat * sLat + Div(cc * sLon, 10000) * sLon
        c == 2 * Atan2(Sqrt(a), Sqrt(100000000 - Div(a, 10000)))
    IN Div(6371 * c, 1000)

\* server/api/index.ts calculateDistance: the distance in metres between
\* (lat1, lon1) and (lat2, lon2), all in tenths of a degree.
calculateDistance(lat1, lon1, lat2, lon2) ==
    LET dLat == ToRadians(lat2 - lat1)
        dLon == ToRadians(lon2 - lon1)
        sLat == Sin(Div(dLat, 2))
        sLon == Sin(Div(dLon, 2))
        cc == Div(Div(Cos(ToRadians(lat1)), 100) * Div(Cos(ToRadians(lat2)), 100), 10000)
        a == sLat * sLat + Div(cc * sLon, 10000) * sLon        \* scale 10^12
        c == 2 * Atan2(Sqrt(a), Sqrt(100000000 - Div(a, 10000)))
    IN Div(R * c, 1000)

-----------------------------------------------------------------------------
(* String.prototype.toLowerCase, includes and replace                       *)

UpperCase == "ABCDEFGHIJKLMNOPQRSTUVWXYZ"
LowerCase == "abcdefghijklmnopqrstuvwxyz"

UpperChars == {CharAt(UpperCase, i) : i \in 1..Len(UpperCase)}

LowerOf ==
    [ch \in UpperChars |->
        CharAt(LowerCase, CHOOSE i \in 1..Len(UpperCase) : CharAt(UpperCase, i) = ch)]

ToLowerChar(ch) == IF ch \in UpperChars THEN LowerOf[ch] ELSE ch

RECURSIVE ToLowerCase(_)
ToLowerCase(s) ==
    IF Len(s) = 0 THEN ""
    ELSE ToLowerCase(SubSeq(s, 1, Len(s) - 1)) \o ToLowerChar(CharAt(s, Len(s)))

Includes(s, sub) ==
    \E i \in 1..(Len(s) - Len(sub) + 1) : SubSeq(s, i, i + Len(sub) - 1) = sub

\* s.replace(ch, rep) with a one-character string pattern: only the first
\* occurrence is replaced.
ReplaceFirst(s, ch, rep) ==
    IF \E i \in 1..Len(s) : CharAt(s, i) = ch
    THEN LET k == CHOOSE i \in 1..Len(s) :
                    CharAt(s, i) = ch /\ \A j \in 1..(i - 1) : CharAt(s, j) # ch
         IN SubSeq(s, 1, k - 1) \o rep \o SubSeq(s, k + 1, Len(s))
    ELSE s

\* Array.prototype.includes
ArrayIncludes(arr, x) == \E i \in 1..Len(arr) : arr[i] = x

-----------------------------------------------------------------------------
(* server/api/usgs.ts                                                       *)

\* Magnitude thresholds, in units of 0.0001.
MAGNITUDE_WARNING_THRESHOLD == 50000
MAGNITUDE_WATCH_THRESHOLD == 40000

\* Faulty variant: the thresholds are exclusive.
USGSFeatureToDisasterExclusive(feature) ==
    [id |-> feature.id,
     disasterType |-> DisasterType.Earthquake,
     alertType |-> IF feature.properties.mag > MAGNITUDE_WARNING_THRESHOLD
                   THEN AlertType.Warning
                   ELSE IF feature.properties.mag > MAGNITUDE_WATCH_THRESHOLD
                   THEN AlertType.Watch
                   ELSE AlertType.Advisory,
     location |-> feature.properties.place,
     latitude |-> NumberToString(feature.geometry.coordinates[2]),
     longitude |-> NumberToString(feature.geometry.coordinates[1]),
     source |-> "USGS"]

\* One feature -> one Disaster.  coordinates is <<longitude, latitude>>.
USGSFeatureToDisaster(feature) ==
    LET alertType ==
            IF feature.properties.mag >= MAGNITUDE_WARNING_THRESHOLD THEN AlertType.Warning
            ELSE IF feature.properties.mag >= MAGNITUDE_WATCH_THRESHOLD THEN AlertType.Watch
            ELSE AlertType.Advisory
        longitude == feature.geometry.coordinates[1]
        latitude == feature.geometry.coordinates[2]
    IN [id |-> feature.id,
        disasterType |-> DisasterType.Earthquake,
        alertType |-> alertType,
        location |-> feature.properties.place,
        latitude |-> NumberToString(latitude),
        longitude |-> NumberToString(longitude),
        source |-> "USGS"]

mapUSGSResponseToDisasters(data) ==
    [i \in 1..Len(data.features) |-> USGSFeatureToDisaster(data.features[i])]

\* usgs.ts has its own Earth radius and its own calculateDistance.
usgsR == 6371

usgsCalculateDistance(lat1, lon1, lat2, lon2) ==
    LET dLat == ToRadians(lat2 - lat1)
        dLon == ToRadians(lon2 - lon1)
        sLat == Sin(Div(dLat, 2))
        sLon == Sin(Div(dLon, 2))
        cc == Div(Div(Cos(ToRadians(lat1)), 100) * Div(Cos(ToRadians(lat2)), 100), 10000)
        a == sLat * sLat + Div(cc * sLon, 10000) * sLon
        c == 2 * Atan2(Sqrt(a), Sqrt(100000000 - Div(a, 10000)))
    IN Div(usgsR * c, 1000)

\* The filter callback has no check for missing coordinates: parseFloat of a
\* string it cannot read is NaN, the distance is NaN, and NaN <= radiusKm is
\* false.
filterEarthquakesByLocation(earthquakes, latitude, longitude, radiusKm) ==
    LET Keep(earthquake) ==
            LET lat == ParseFloat(earthquake.latitude)
                lon == ParseFloat(earthquake.longitude)
            IN IsSome(lat) /\ IsSome(lon)
               /\ usgsCalculateDistance(latitude, longitude, lat[1], lon[1])
                     <= radiusKm * 1000
    IN SelectSeq(earthquakes, Keep)

-----------------------------------------------------------------------------
(* server/api/noaa.ts                                                       *)

\* The lexicon, in declaration order (Object.keys / Object.entries order).
noaaEventToDisasterType ==
    << <<"Tornado", DisasterType.Storm>>,
       <<"Tornado Warning", DisasterType.Storm>>,
       <<"Tornado Watch", DisasterType.Storm>>,
       <<"Severe Thunderstorm", DisasterType.Storm>>,
       <<"Severe Thunderstorm Warning", DisasterType.Storm>>,
       <<"Severe Thunderstorm Watch", DisasterType.Storm>>,
       <<"Flash Flood", DisasterType.Flood>>,
       <<"Flash Flood Warning", DisasterType.Flood>>,
       <<"Flash Flood Watch", DisasterType.Flood>>,
       <<"Flood", DisasterType.Flood>>,
       <<"Flood Warning", DisasterType.Flood>>,
       <<"Flood Watch", DisasterType.Flood>>,
       <<"Hurricane", DisasterType.Storm>>,
       <<"Hurricane Warning", DisasterType.Storm>>,
       <<"Hurricane Watch", DisasterType.Storm>>,
       <<"Tropical Storm", DisasterType.Storm>>,
       <<"Tropical Storm Warning", DisasterType.Storm>>,
       <<"Tropical Storm Watch", DisasterType.Storm>>,
       <<"Winter Storm", DisasterType.Storm>>,
       <<"Winter Storm Warning", DisasterType.Storm>>,
       <<"Winter Storm Watch", DisasterType.Storm>>,
       <<"Blizzard", DisasterType.Storm>>,
       <<"Blizzard Warning", DisasterType.Storm>>,
       <<"Blizzard Watch", DisasterType.Storm>>,
       <<"Tsunami", DisasterType.Flood>>,
       <<"Tsunami Warning", DisasterType.Flood>>,
       <<"Tsunami Watch", DisasterType.Flood>>,
       <<"Red Flag", DisasterType.Wildfire>>,
       <<"Fire Weather", DisasterType.Wildfire>>,
       <<"Fire Warning", DisasterType.Wildfire>>,
       <<"Wildfire", DisasterType.Wildfire>> >>

\* key.toLowerCase() for every key, in declaration order.
noaaLowerKeys ==
    [i \in 1..Len(noaaEventToDisasterType) |-> ToLowerCase(noaaEventToDisasterType[i][1])]

noaaSeverityToAlertType ==
    << <<"Extreme", AlertType.Warning>>,
       <<"Severe", AlertType.Warning>>,
       <<"Moderate", AlertType.Watch>>,
       <<"Minor", AlertType.Advisory>>,
       <<"Unknown", AlertType.Advisory>> >>

\* noaaSeverityToAlertType is an object literal, so a property lookup that
\* finds no own property goes on to Object.prototype.
ObjectPrototypeKeys ==
    {"constructor", "hasOwnProperty", "isPrototypeOf", "propertyIsEnumerable",
     "toLocaleString", "toString", "valueOf", "__proto__",
     "__defineGetter__", "__defineSetter__", "__lookupGetter__", "__lookupSetter__"}

\* The value of an inherited property: a function or Object.prototype itself,
\* in either case a truthy value that is no member of AlertType.
InheritedProperty(key) == "Object.prototype." \o key

\* noaaSeverityToAlertType[severity] || AlertType.Advisory; severity is
\* optional, and the key undefined is looked up as "undefined".
NOAAAlertType(severity) ==
    IF IsSome(severity) /\ \E i \in 1..Len(noaaSeverityToAlertType) :
                               noaaSeverityToAlertType[i][1] = severity[1]
    THEN noaaSeverityToAlertType[
             CHOOSE i \in 1..Len(noaaSeverityToAlertType) :
                 noaaSeverityToAlertType[i][1] = severity[1]][2]
    ELSE IF IsSome(severity) /\ severity[1] \in ObjectPrototypeKeys
    THEN InheritedProperty(severity[1])
    ELSE AlertType.Advisory

\* Faulty variant: no alert is dropped.
NOAARelevantAlways(feature) == TRUE

\* The .filter callback: some lexicon key is a case-insensitive substring.
NOAARelevant(feature) ==
    LET event == ToLowerCase(feature.properties.event)
    IN \E i \in 1..Len(noaaLowerKeys) : Includes(event, noaaLowerKeys[i])

\* Faulty variant: the last matching key decides.
NOAADisasterTypeLastMatch(eventName) ==
    LET event == ToLowerCase(eventName)
        hits == {i \in 1..Len(noaaLowerKeys) : Includes(event, noaaLowerKeys[i])}
    IN IF hits = {} THEN DisasterType.Storm
       ELSE noaaEventToDisasterType[CHOOSE i \in hits : \A j \in hits : i >= j][2]

\* The for ... break loop: the first key in declaration order that matches.
NOAADisasterType(eventName) ==
    LET event == ToLowerCase(eventName)
        hits == {i \in 1..Len(noaaLowerKeys) : Includes(event, noaaLowerKeys[i])}
    IN IF hits = {} THEN DisasterType.Storm
       ELSE noaaEventToDisasterType[CHOOSE i \in hits : \A j \in hits : i <= j][2]

RECURSIVE SumCoord(_, _)
SumCoord(ring, k) ==
    IF Len(ring) = 0 THEN 0 ELSE ring[1][k] + SumCoord(Tail(ring), k)

\* Arithmetic mean of the vertices of a ring: <<latitude, longitude>>.
RingCentroid(ring) ==
    <<Div(SumCoord(ring, 2), Len(ring)), Div(SumCoord(ring, 1), Len(ring))>>

\* Faulty variant: a MultiPolygon is resolved from the last ring of its first
\* polygon.
NOAACoordinatesLastRing(geometry) ==
    IF ~IsSome(geometry) THEN <<0, 0>>
    ELSE LET g == geometry[1]
         IN IF g.type = "Point" THEN <<g.coordinates[2], g.coordinates[1]>>
            ELSE IF g.type = "Polygon" THEN RingCentroid(g.coordinates[1])
            ELSE IF g.type = "MultiPolygon"
            THEN RingCentroid(g.coordinates[1][Len(g.coordinates[1])])
            ELSE <<0, 0>>

\* <<latitude, longitude>> of a feature; geometry is optional.
NOAACoordinates(geometry) ==
    IF ~IsSome(geometry) THEN <<0, 0>>
    ELSE LET g == geometry[1]
         IN IF g.type = "Point" THEN <<g.coordinates[2], g.coordinates[1]>>
            ELSE IF g.type = "Polygon" THEN RingCentroid(g.coordinates[1])
            ELSE IF g.type = "MultiPolygon" THEN RingCentroid(g.coordinates[1][1])
            ELSE <<0, 0>>

\* The .map callback.
NOAAFeatureToDisaster(feature) ==
    LET coords == NOAACoordinates(feature.geometry)
    IN [id |-> feature.id,
        disasterType |-> NOAADisasterType(feature.properties.event),
        alertType |-> NOAAAlertType(feature.properties.severity),
        location |-> feature.properties.areaDesc,
        latitude |-> NumberToString(coords[1]),
        longitude |-> NumberToString(coords[2]),
        source |-> "NOAA"]

RECURSIVE FilterMapNOAA(_)
FilterMapNOAA(features) ==
    IF Len(features) = 0 THEN <<>>
    ELSE (IF NOAARelevant(features[1])
          THEN <<NOAAFeatureToDisaster(features[1])>> ELSE <<>>)
         \o FilterMapNOAA(Tail(features))

mapNOAAResponseToDisasters(data) == FilterMapNOAA(data.features)

\* noaa.ts has its own Earth radius and its own calculateDistance.
noaaR == 6371

noaaCalculateDistance(lat1, lon1, lat2, lon2) ==
    LET dLat == ToRadians(lat2 - lat1)
        dLon == ToRadians(lon2 - lon1)
        sLat == Sin(Div(dLat, 2))
        sLon == Sin(Div(dLon, 2))
        cc == Div(Div(Cos(ToRadians(lat1)), 100) * Div(Cos(ToRadians(lat2)), 100), 10000)
        a == sLat * sLat + Div(cc * sLon, 10000) * sLon
        c == 2 * Atan2(Sqrt(a), Sqrt(100000000 - Div(a, 10000)))
    IN Div(noaaR * c, 1000)

\* if (!alert.latitude || !alert.longitude) return false; distance <= radiusKm
filterAlertsByLocation(alerts, latitude, longitude, radiusKm) ==
    LET Keep(alert) ==
            IF ~TruthyStr(alert.latitude) \/ ~TruthyStr(alert.longitude) THEN FALSE
            ELSE LET lat == ParseFloat(alert.latitude)
                     lon == ParseFloat(alert.longitude)
                 IN IsSome(lat) /\ IsSome(lon)
                    /\ noaaCalculateDistance(latitude, longitude, lat[1], lon[1])
                          <= radiusKm * 1000
    IN SelectSeq(alerts, Keep)

-----------------------------------------------------------------------------
(* server/api/openweathermap.ts                                             *)

SEVERE_WEATHER_CODES ==
    <<200, 201, 202, 210, 211, 212, 221, 230, 231, 232,
      502, 503, 504, 511, 522, 531,
      602, 622,
      771, 781>>

\* Wind speed thresholds, in tenths of m/s (17.2 and 10.8 m/s).
WIND_WARNING_THRESHOLD == 172
WIND_WATCH_THRESHOLD == 108

\* Rainfall thresholds, in tenths of mm (50 and 25 mm per 3 h).
RAIN_WARNING_THRESHOLD == 500
RAIN_WATCH_THRESHOLD == 250

\* data.hourly.slice(0, 12)
FORECAST_HOURS == 12

getSevereWeatherType(weatherId) ==
    IF weatherId >= 200 /\ weatherId < 300 THEN DisasterType.Storm
    ELSE IF (weatherId >= 500 /\ weatherId < 600)
            /\ ArrayIncludes(<<502, 503, 504, 511, 522, 531>>, weatherId)
         THEN DisasterType.Flood
    ELSE IF (weatherId >= 600 /\ weatherId < 700)
            /\ ArrayIncludes(<<602, 622>>, weatherId)
         THEN DisasterType.Storm
    ELSE IF weatherId = 781 THEN DisasterType.Storm
    ELSE DisasterType.Storm

\* weather.find(w => SEVERE_WEATHER_CODES.includes(w.id)): the first severe
\* entry, as an optional value.
FindSevere(weather) ==
    LET hits == {i \in 1..Len(weather) : ArrayIncludes(SEVERE_WEATHER_CODES, weather[i].id)}
    IN IF hits = {} THEN None
       ELSE Some(weather[CHOOSE i \in hits : \A j \in hits : i <= j])

\* The wind-speed if / else-if of both analysers.
WindAlertType(speed) ==
    IF speed >= WIND_WARNING_THRESHOLD THEN AlertType.Warning
    ELSE IF speed >= WIND_WATCH_THRESHOLD THEN AlertType.Watch
    ELSE AlertType.Advisory

\* analyzeCurrentWeather, lines 300-307: the rainfall block, applied to the
\* alertType the wind block left.  rain is optional, and so is rain['3h'].
CurrentRainAlertType(alertType, rain) ==
    IF IsSome(rain) /\ TruthyNum(rain[1].h3)
    THEN IF rain[1].h3[1] >= RAIN_WARNING_THRESHOLD THEN AlertType.Warning
         ELSE IF rain[1].h3[1] >= RAIN_WATCH_THRESHOLD THEN AlertType.Watch
         ELSE alertType
    ELSE alertType

\* Faulty variant: one event for every severe entry of the weather array.
analyzeCurrentWeatherPerCode(data) ==
    LET Severe(w) == ArrayIncludes(SEVERE_WEATHER_CODES, w.id)
        severe == SelectSeq(data.weather, Severe)
    IN [i \in 1..Len(severe) |->
          [id |-> "owm-current-" \o NatToString(data.id) \o "-" \o NatToString(data.dt),
           disasterType |-> getSevereWeatherType(severe[i].id),
           alertType |-> CurrentRainAlertType(WindAlertType(data.wind.speed), data.rain),
           location |-> data.name \o ", " \o data.sys.country,
           latitude |-> NumberToString(data.coord.lat),
           longitude |-> NumberToString(data.coord.lon),
           source |-> "OpenWeatherMap"]]

analyzeCurrentWeather(data) ==
    LET severeCondition == FindSevere(data.weather)
    IN IF IsSome(severeCondition)
       THEN LET id == "owm-current-" \o NatToString(data.id) \o "-" \o NatToString(data.dt)
                alertType == CurrentRainAlertType(WindAlertType(data.wind.speed), data.rain)
            IN <<[id |-> id,
                  disasterType |-> getSevereWeatherType(severeCondition[1].id),
                  alertType |-> alertType,
                  location |-> data.name \o ", " \o data.sys.country,
                  latitude |-> NumberToString(data.coord.lat),
                  longitude |-> NumberToString(data.coord.lon),
                  source |-> "OpenWeatherMap"]>>
       ELSE <<>>

\* hour.rain && hour.rain['1h'] && hour.rain['1h'] >= RAIN_WATCH_THRESHOLD/3
\* (r >= 25/3 is decided as 3 * r >= 25, exact for r in tenths of mm).
HeavyRainHour(hour) ==
    IsSome(hour.rain) /\ TruthyNum(hour.rain[1].h1)
    /\ 3 * hour.rain[1].h1[1] >= RAIN_WATCH_THRESHOLD

\* nextFewHours.some(...) over data.hourly.slice(0, 12)
heavyRainForecast(hourly) ==
    \E i \in 1..Len(hourly) : i <= FORECAST_HOURS /\ HeavyRainHour(hourly[i])

\* analyzeWeatherConditions, lines 355-367: the forecast block, applied to
\* the alertType the wind block left.  data.hourly is optional.
ForecastAlertType(alertType, hourly) ==
    IF IsSome(hourly) /\ heavyRainForecast(hourly[1]) THEN AlertType.Watch
    ELSE alertType

\* data.timezone.replace('_', ' ').replace('/', ', ')
OneCallLocation(timezone) == ReplaceFirst(ReplaceFirst(timezone, "_", " "), "/", ", ")

analyzeWeatherConditions(data) ==
    LET severeCondition == FindSevere(data.current.weather)
    IN IF IsSome(severeCondition)
       THEN LET id == "owm-onecall-" \o NumberToString(data.lat) \o "-"
                       \o NumberToString(data.lon) \o "-" \o NatToString(data.current.dt)
                alertType == ForecastAlertType(WindAlertType(data.current.wind_speed),
                                               data.hourly)
            IN <<[id |-> id,
                  disasterType |-> getSevereWeatherType(severeCondition[1].id),
                  alertType |-> alertType,
                  location |-> OneCallLocation(data.timezone),
                  latitude |-> NumberToString(data.lat),
                  longitude |-> NumberToString(data.lon),
                  source |-> "OpenWeatherMap"]>>
       ELSE <<>>

\* The .map callback of processWeatherAlerts.
OWMAlertToDisaster(data, alert) ==
    LET event == ToLowerCase(alert.event)
        disasterType ==
            IF Includes(event, "flood") THEN DisasterType.Flood
            ELSE IF Includes(event, "fire") THEN DisasterType.Wildfire
            ELSE DisasterType.Storm
        alertType ==
            IF Includes(event, "warning") THEN AlertType.Warning
            ELSE IF Includes(event, "watch") THEN AlertType.Watch
            ELSE IF Includes(event, "advisory") THEN AlertType.Advisory
            ELSE AlertType.Advisory
        id == "owm-alert-" \o NumberToString(data.lat) \o "-"
                \o NumberToString(data.lon) \o "-" \o NatToString(alert.start)
    IN [id |-> id,
        disasterType |-> disasterType,
        alertType |-> alertType,
        location |-> OneCallLocation(data.timezone),
        latitude |-> NumberToString(data.lat),
        longitude |-> NumberToString(data.lon),
        source |-> "OpenWeatherMap"]

\* data.alerts is optional.
processWeatherAlerts(data) ==
    IF ~IsSome(data.alerts) \/ Len(data.alerts[1]) = 0 THEN <<>>
    ELSE [i \in 1..Len(data.alerts[1]) |-> OWMAlertToDisaster(data, data.alerts[1][i])]

\* Faulty variant: an event whose id an earlier event of the call has is
\* dropped.
OneCallDisastersDeduplicated(data) ==
    LET all == processWeatherAlerts(data) \o analyzeWeatherConditions(data)
        first == {i \in 1..Len(all) : \A j \in 1..(i - 1) : all[j].id # all[i].id}
        RECURSIVE Pick(_)
        Pick(i) == IF i > Len(all) THEN <<>>
                   ELSE (IF i \in first THEN <<all[i]>> ELSE <<>>) \o Pick(i + 1)
    IN Pick(1)

\* fetchWeatherOneCall, lines 217-221: what the adapter returns for a 2xx
\* response with a well-formed body.
OneCallDisasters(data) == processWeatherAlerts(data) \o analyzeWeatherConditions(data)

-----------------------------------------------------------------------------
(* utils/alertUtils.ts mapTimeRangeToValue and the endpoint switch of       *)
(* fetchEarthquakeData                                                       *)

\* Faulty variant: the aliases week and month are not recognised.
mapTimeRangeToValueWithoutAliases(timeRange) ==
    IF timeRange \in {"1h", "hour"} THEN "hour"
    ELSE IF timeRange \in {"24h", "1d", "1day"} THEN "1day"
    ELSE IF timeRange \in {"7d", "7days"} THEN "7days"
    ELSE IF timeRange \in {"30d", "30days"} THEN "30days"
    ELSE "1day"

mapTimeRangeToValue(timeRange) ==
    IF timeRange \in {"1h", "hour"} THEN "hour"
    ELSE IF timeRange \in {"24h", "1d", "1day"} THEN "1day"
    ELSE IF timeRange \in {"7d", "7days", "week"} THEN "7days"
    ELSE IF timeRange \in {"30d", "30days", "month"} THEN "30days"
    ELSE "1day"

\* Faulty variant: the weekly window is served from the monthly feed.
USGSEndpointMonthlyForWeek(timeRange) ==
    IF timeRange \in {"1h", "hour"} THEN "all_hour.geojson"
    ELSE IF timeRange \in {"24h", "1day"} THEN "all_day.geojson"
    ELSE IF timeRange \in {"7d", "7days", "30d", "30days"} THEN "all_month.geojson"
    ELSE "all_day.geojson"

USGSEndpoint(timeRange) ==
    IF timeRange \in {"1h", "hour"} THEN "all_hour.geojson"
    ELSE IF timeRange \in {"24h", "1day"} THEN "all_day.geojson"
    ELSE IF timeRange \in {"7d", "7days"} THEN "all_week.geojson"
    ELSE IF timeRange \in {"30d", "30days"} THEN "all_month.geojson"
    ELSE "all_day.geojson"

-----------------------------------------------------------------------------
(* Promises and upstream responses                                          *)

Feeds == {"usgs", "noaa", "owm"}

NoPromise == [state |-> "none", value |-> <<>>, error |-> ""]
Pending == [state |-> "pending", value |-> <<>>, error |-> ""]
Fulfilled(v) == [state |-> "fulfilled", value |-> v, error |-> ""]
Rejected(msg) == [state |-> "rejected", value |-> <<>>, error |-> msg]

\* What axios.get ends with: a 2xx response with a well-formed body ("ok"),
\* a network failure, a non-2xx status (axios rejects), or a 2xx response
\* whose body is not of the expected shape (the mapper throws a TypeError).
ErrorKinds == {"network", "status", "malformed"}

OkResponse(data) == [kind |-> "ok", data |-> Some(data)]
ErrorResponse(kind) == [kind |-> kind, data |-> None]

\* Faulty variant: the seismic adapter swallows the error and returns [].
fetchEarthquakeDataSwallowing(response) ==
    IF response.kind = "ok"
    THEN Fulfilled(mapUSGSResponseToDisasters(response.data[1]))
    ELSE Fulfilled(<<>>)

\* usgs.ts fetchEarthquakeData after the request: try { map } catch { throw }
fetchEarthquakeData(response) ==
    IF response.kind = "ok"
    THEN Fulfilled(mapUSGSResponseToDisasters(response.data[1]))
    ELSE Rejected("Failed to fetch earthquake data")

\* noaa.ts fetchWeatherAlerts after the request: try { map } catch { throw }
fetchWeatherAlerts(response) ==
    IF response.kind = "ok"
    THEN Fulfilled(mapNOAAResponseToDisasters(response.data[1]))
    ELSE Rejected("Failed to fetch weather alerts")

\* Faulty variant: the weather-condition adapter rethrows like the two others.
fetchWeatherOneCallRethrowing(response) ==
    IF response.kind = "ok"
    THEN Fulfilled(OneCallDisasters(response.data[1]))
    ELSE Rejected("Failed to fetch weather data")

\* openweathermap.ts fetchWeatherOneCall after the request:
\* try { process } catch { return [] }
fetchWeatherOneCall(response) ==
    IF response.kind = "ok"
    THEN Fulfilled(OneCallDisasters(response.data[1]))
    ELSE Fulfilled(<<>>)

\* openweathermap.ts fetchCurrentWeather after the request:
\* try { analyze } catch { return [] }
fetchCurrentWeather(response) ==
    IF response.kind = "ok"
    THEN Fulfilled(analyzeCurrentWeather(response.data[1]))
    ELSE Fulfilled(<<>>)

\* Faulty variant: the key check is missing.
OWMKeyNeverMissing(key) == FALSE

\* if (!OWM_API_KEY) return [] -- before any request, in both OWM fetchers.
OWMKeyMissing(key) == ~key

\* Faulty variant: fulfilled as soon as no promise is rejected and the first
\* two are fulfilled, without waiting for the third.
PromiseAllButLast(s) ==
    IF \E f \in Feeds : s[f].state = "rejected"
    THEN Rejected(s[CHOOSE f \in Feeds : s[f].state = "rejected"].error)
    ELSE IF s["usgs"].state = "fulfilled" /\ s["noaa"].state = "fulfilled"
    THEN Fulfilled(<<s["usgs"].value, s["noaa"].value, s["owm"].value>>)
    ELSE Pending

\* Promise.all over the three promises: rejected as soon as one is rejected
\* (with the first rejection's reason), fulfilled with the values in index
\* order once all are fulfilled.
PromiseAll(s) ==
    IF \E f \in Feeds : s[f].state = "rejected"
    THEN Rejected(s[CHOOSE f \in Feeds : s[f].state = "rejected"].error)
    ELSE IF \A f \in Feeds : s[f].state = "fulfilled"
    THEN Fulfilled(<<s["usgs"].value, s["noaa"].value, s["owm"].value>>)
    ELSE Pending

-----------------------------------------------------------------------------
(* server/api/index.ts getAllDisasters: the synchronous parts                *)

\* options.latitude && options.longitude ? fetchWeatherOneCall(...) : Promise.resolve([])
CallsWeatherOneCall(o) == TruthyNum(o.latitude) /\ TruthyNum(o.longitude)

\* Faulty variant: the weather alerts are spread first.
CombineAlertsFirst(earthquakes, weatherAlerts, weatherData) ==
    weatherAlerts \o earthquakes \o weatherData

\* [...earthquakes, ...weatherAlerts, ...weatherData]
Combine(earthquakes, weatherAlerts, weatherData) ==
    earthquakes \o weatherAlerts \o weatherData

\* Faulty variant: only the first element of types is compared.
FilterByFirstType(all, types) ==
    IF IsSome(types) /\ Len(types[1]) > 0
    THEN LET Keep(d) == types[1][1] = d.disasterType
         IN SelectSeq(all, Keep)
    ELSE all

\* options.types && options.types.length > 0 ? filter(includes) : unchanged
FilterByType(all, types) ==
    IF IsSome(types) /\ Len(types[1]) > 0
    THEN LET Keep(d) == ArrayIncludes(types[1], d.disasterType)
         IN SelectSeq(all, Keep)
    ELSE all

\* Faulty variant: an event outside the set is relabelled with the first
\* requested alert type instead of being dropped.
FilterByAlertTypeRelabelling(all, alertTypes) ==
    IF IsSome(alertTypes) /\ Len(alertTypes[1]) > 0
    THEN [i \in 1..Len(all) |->
            IF ArrayIncludes(alertTypes[1], all[i].alertType) THEN all[i]
            ELSE [all[i] EXCEPT !.alertType = alertTypes[1][1]]]
    ELSE all

FilterByAlertType(all, alertTypes) ==
    IF IsSome(alertTypes) /\ Len(alertTypes[1]) > 0
    THEN LET Keep(d) == ArrayIncludes(alertTypes[1], d.alertType)
         IN SelectSeq(all, Keep)
    ELSE all

\* The callback of the location filter; the radius is in km, the distance in
\* metres.  A coordinate string parseFloat cannot read gives NaN, and
\* NaN <= radius is false.
WithinRadius(d, latitude, longitude, radius) ==
    IF ~TruthyStr(d.latitude) \/ ~TruthyStr(d.longitude) THEN FALSE
    ELSE LET lat == ParseFloat(d.latitude)
             lon == ParseFloat(d.longitude)
         IN IsSome(lat) /\ IsSome(lon)
            /\ calculateDistance(latitude, longitude, lat[1], lon[1]) <= radius * 1000

\* if (options.latitude && options.longitude && options.radius)
LocationFilterApplies(o) ==
    TruthyNum(o.latitude) /\ TruthyNum(o.longitude) /\ TruthyNum(o.radius)

FilterByLocation(all, o) ==
    IF LocationFilterApplies(o)
    THEN LET Keep(d) == WithinRadius(d, o.latitude[1], o.longitude[1], o.radius[1])
         IN SelectSeq(all, Keep)
    ELSE all

\* Lines 29-61: combine, then the three filters in source order.
FilterDisasters(o, earthquakes, weatherAlerts, weatherData) ==
    FilterByLocation(
        FilterByAlertType(
            FilterByType(Combine(earthquakes, weatherAlerts, weatherData), o.types),
            o.alertTypes),
        o)

\* getDisastersByLocation, lines 88-119: the seismic events and the weather
\* alerts are filtered by location with the adapters' own filters, the
\* weather-condition events are not; then the two type filters.
FilterDisastersByLocation(o, earthquakes, weatherAlerts, weatherData) ==
    LET filteredEarthquakes ==
            filterEarthquakesByLocation(earthquakes, o.latitude[1], o.longitude[1], o.radius[1])
        filteredWeatherAlerts ==
            filterAlertsByLocation(weatherAlerts, o.latitude[1], o.longitude[1], o.radius[1])
    IN FilterByAlertType(
           FilterByType(filteredEarthquakes \o filteredWeatherAlerts \o weatherData, o.types),
           o.alertTypes)

\* disasters.filter(d => d.alertType === t).length
CountAlertType(list, t) == Cardinality({i \in 1..Len(list) : list[i].alertType = t})

\* Faulty variant: locations are compared without regard to case.
getDisasterStatsFoldingCase(list) ==
    [warnings |-> CountAlertType(list, AlertType.Warning),
     watches |-> CountAlertType(list, AlertType.Watch),
     advisories |-> CountAlertType(list, AlertType.Advisory),
     affectedAreas |-> Cardinality({ToLowerCase(list[i].location) : i \in 1..Len(list)})]

\* getDisasterStats: three counts and the size of the Set of location strings.
getDisasterStats(list) ==
    [warnings |-> CountAlertType(list, AlertType.Warning),
     watches |-> CountAlertType(list, AlertType.Watch),
     advisories |-> CountAlertType(list, AlertType.Advisory),
     affectedAreas |-> Cardinality({list[i].location : i \in 1..Len(list)})]

-----------------------------------------------------------------------------
(* The inputs the model draws from                                          *)

\* Longest seismic payload and longest weather-alert payload of a
\* getAllDisasters call.
MaxQuakes == 2
MaxAlerts == 1

SeqsUpTo(S, n) == UNION {[1..k -> S] : k \in 0..n}

USGSFeature(id, mag, place, lon, lat) ==
    [id |-> id, properties |-> [mag |-> mag, place |-> place],
     geometry |-> [coordinates |-> <<lon, lat>>]]

USGSFeatures ==
    { USGSFeature("us1", 55000, "Quito", 0, 0),
      USGSFeature("us2", 42000, "Lima", 2, 1) }

NOAAFeature(id, event, severity, areaDesc, geometry) ==
    [id |-> id,
     properties |-> [event |-> event, severity |-> severity, areaDesc |-> areaDesc],
     geometry |-> geometry]

Point(lon, lat) == Some([type |-> "Point", coordinates |-> <<lon, lat>>])

NOAAFeatures ==
    { NOAAFeature("nws1", "Flood Warning", Some("Severe"), "Coast", Point(1, 1)),
      NOAAFeature("nws2", "Tornado Watch", Some("Moderate"), "Plains", None),
      NOAAFeature("nws3", "Heat Advisory", Some("Minor"), "Valley", Point(1, 1)) }

Weather(id, main) == [id |-> id, main |-> main]
Rain1h(r) == Some([h1 |-> Some(r)])
Hour(rain) == [rain |-> rain]
OWMAlert(event, start) == [event |-> event, start |-> start]

\* A One Call response body; the API answers for the coordinates asked.
OneCallBody(weather, wind, hourly, alerts) ==
    [timezone |-> "America/New_York",
     current |-> [dt |-> 100, wind_speed |-> wind, weather |-> weather],
     hourly |-> hourly, alerts |-> alerts]

OneCallData(body, lat, lon) ==
    [lat |-> lat, lon |-> lon, timezone |-> body.timezone, current |-> body.current,
     hourly |-> body.hourly, alerts |-> body.alerts]

Clear == <<Weather(800, "Clear")>>
Thunderstorm == <<Weather(211, "Thunderstorm")>>

\* The bodies a getAllDisasters call may receive.
OneCallBodies ==
    { OneCallBody(Clear, 30, None, None),
      OneCallBody(Thunderstorm, 180, None, Some(<<OWMAlert("Fire Weather Watch", 50)>>)) }

Responses(Datas) == {OkResponse(d) : d \in Datas} \cup {ErrorResponse(k) : k \in ErrorKinds}

USGSResponses == Responses({[features |-> fs] : fs \in SeqsUpTo(USGSFeatures, MaxQuakes)})
NOAAResponses == Responses({[features |-> fs] : fs \in SeqsUpTo(NOAAFeatures, MaxAlerts)})
OneCallResponses(lat, lon) == Responses({OneCallData(b, lat, lon) : b \in OneCallBodies})

\* Longest hourly forecast of a One Call response.
MaxHours == 13

\* n hours without rain, then one hour with r tenths of mm.
DryThenRain(n, r) == [i \in 1..(n + 1) |-> IF i <= n THEN Hour(None) ELSE Hour(Rain1h(r))]

\* 8.3 mm is below a third of the watch threshold, 8.4 mm is above it.
HourlyForecasts ==
    {None, Some(<<Hour(None)>>)}
    \cup {Some(DryThenRain(n, r)) : n \in {0} \cup ((FORECAST_HOURS - 1)..(MaxHours - 1)),
                                    r \in {83, 84}}

OWMAlertArrays ==
    { None, Some(<<>>), Some(<<OWMAlert("Flood Watch", 50)>>),
      Some(<<OWMAlert("Red Flag Warning", 50), OWMAlert("Wind Advisory", 60)>>) }

WindSpeeds == {50, 108, 172}

\* The bodies a direct fetchWeatherOneCall call may receive.
AdapterOneCallBodies ==
    { OneCallBody(w, v, h, a) :
        w \in {Clear, Thunderstorm}, v \in WindSpeeds, h \in HourlyForecasts,
        a \in OWMAlertArrays }

\* rain of a current-weather response: absent, or with a 3 h amount of
\* 0, 10, 25, 30 or 50 mm.
CurrentRains ==
    {None, Some([h1 |-> None, h3 |-> None])}
    \cup {Some([h1 |-> None, h3 |-> Some(r)]) : r \in {0, 100, 250, 300, 500}}

CurrentWeatherData(weather, wind, rain, lat, lon) ==
    [id |-> 7, dt |-> 100, name |-> "Quito", sys |-> [country |-> "EC"],
     coord |-> [lat |-> lat, lon |-> lon],
     weather |-> weather, wind |-> [speed |-> wind], rain |-> rain]

CurrentWeatherResponses(lat, lon) ==
    Responses({ CurrentWeatherData(w, v, r, lat, lon) :
                  w \in {Clear, Thunderstorm, <<Weather(800, "Clear"), Weather(502, "Rain")>>},
                  v \in WindSpeeds, r \in CurrentRains })

AdapterOneCallResponses(lat, lon) ==
    Responses({OneCallData(b, lat, lon) : b \in AdapterOneCallBodies})

\* <<latitude, longitude>> of the direct adapter calls.
Centres == {<<1, 1>>, <<0, 1>>}

Options(types, alertTypes, timeRange, latitude, longitude, radius) ==
    [types |-> types, alertTypes |-> alertTypes, timeRange |-> timeRange,
     latitude |-> latitude, longitude |-> longitude, radius |-> radius]

OptNumbers(S) == {None} \cup {Some(x) : x \in S}

\* Centres on and off the equator / prime meridian; radii in km.
Latitudes == {0, 1}
Longitudes == {0, 1}
Radii == {10, 15}

TypeArrays ==
    { None, Some(<<>>), Some(<<DisasterType.Storm>>),
      Some(<<DisasterType.Earthquake, DisasterType.Flood>>),
      Some(<<DisasterType.Flood, DisasterType.Earthquake>>) }

AlertTypeArrays ==
    { None, Some(<<>>), Some(<<AlertType.Warning>>),
      Some(<<AlertType.Watch, AlertType.Warning>>) }

\* Every geographic filter without type filters, and every pair of type
\* filters without a centre and with the centre (0.1, 0.1), radius 15.
GeoOptions ==
    { Options(None, None, None, lat, lon, r) :
        lat \in OptNumbers(Latitudes), lon \in OptNumbers(Longitudes), r \in OptNumbers(Radii) }

TypeOptions ==
    { Options(t, a, None, g[1], g[2], g[3]) :
        t \in TypeArrays, a \in AlertTypeArrays,
        g \in { <<None, None, None>>, <<Some(1), Some(1), Some(15)>> } }

TimeRangeOptions ==
    { Options(None, None, Some(tr), None, None, None) : tr \in {"week", "1h"} }

AllOptions == GeoOptions \cup TypeOptions \cup TimeRangeOptions

-----------------------------------------------------------------------------
(* The state machine.  A call is one invocation of an exported function; a  *)
(* step is one turn of the event loop: the synchronous part of a call up to *)
(* its first await, or the arrival of one upstream response together with   *)
(* every continuation it wakes.                                              *)

Calls == {1, 2}

NoOptions == Options(None, None, None, None, None, None)

Request(feed, url, params) == [feed |-> feed, url |-> url, params |-> params]

Init ==
    /\ apiKey \in BOOLEAN
    /\ op = [c \in Calls |-> "none"]
    /\ pc = [c \in Calls |-> "idle"]
    /\ options = [c \in Calls |-> NoOptions]
    /\ slots = [c \in Calls |-> [f \in Feeds |-> NoPromise]]
    /\ received = [c \in Calls |-> [f \in Feeds |-> None]]
    /\ invoked = [c \in Calls |-> {}]
    /\ requests = [c \in Calls |-> {}]
    /\ result = [c \in Calls |-> NoPromise]
    /\ disasters = [c \in Calls |-> <<>>]
    /\ stats = [c \in Calls |-> None]
    /\ query = [c \in Calls |-> None]
    /\ reply = [c \in Calls |-> None]
    /\ distance = [c \in Calls |-> None]

\* getAllDisasters(o), lines 16-27: resolve the time range and call the
\* adapters; each adapter runs up to its axios.get.
StartGetAllDisasters(c, o) ==
    LET timeRange == mapTimeRangeToValue(IF IsSome(o.timeRange) /\ TruthyStr(o.timeRange[1])
                                         THEN o.timeRange[1] ELSE "24h")
        weather == CallsWeatherOneCall(o)
        asks == weather /\ ~OWMKeyMissing(apiKey)
    IN /\ pc[c] = "idle"
       /\ op' = [op EXCEPT ![c] = "getAllDisasters"]
       /\ pc' = [pc EXCEPT ![c] = "pending"]
       /\ options' = [options EXCEPT ![c] = o]
       /\ invoked' = [invoked EXCEPT ![c] =
                         {"usgs", "noaa"} \cup (IF weather THEN {"owm"} ELSE {})]
       /\ requests' = [requests EXCEPT ![c] =
                         { Request("usgs", USGSEndpoint(timeRange), <<timeRange>>),
                           Request("noaa", "alerts/active", <<>>) }
                         \cup (IF asks
                               THEN {Request("owm", "onecall", <<o.latitude[1], o.longitude[1]>>)}
                               ELSE {})]
       /\ slots' = [slots EXCEPT ![c] =
                         [f \in Feeds |-> IF f = "owm" /\ ~asks THEN Fulfilled(<<>>) ELSE Pending]]
       /\ received' = [received EXCEPT ![c] = [f \in Feeds |-> None]]
       /\ result' = [result EXCEPT ![c] = Pending]
       /\ UNCHANGED <<apiKey, disasters, stats, distance>>

\* getAllDisasters(o) called by other server code, not by the
\* /api/disasters handler.
GetAllDisasters(c, o) == StartGetAllDisasters(c, o) /\ UNCHANGED <<query, reply>>

\* The adapter's continuation for the response of feed f.
AdapterOutcome(f, response) ==
    IF f = "usgs" THEN fetchEarthquakeData(response)
    ELSE IF f = "noaa" THEN fetchWeatherAlerts(response)
    ELSE fetchWeatherOneCall(response)

\* routes.ts, /api/disasters, lines 40-44: res.json(disasters), or in the
\* catch block res.status(500).json({ message: ... }) whatever was thrown.
DisastersRouteReply(out) ==
    IF out.state = "fulfilled"
    THEN [status |-> 200, message |-> "", disasters |-> out.value]
    ELSE [status |-> 500, message |-> "Failed to fetch disaster data", disasters |-> <<>>]

\* Faulty variant: the catch block rethrows the adapter's error.
GetAllOutcomeLeaking(o, all) ==
    IF all.state = "rejected" THEN Rejected(all.error)
    ELSE Fulfilled(FilterDisasters(o, all.value[1], all.value[2], all.value[3]))

\* getAllDisasters, lines 29-65: what the call settles with once Promise.all
\* has settled.
GetAllOutcome(o, all) ==
    IF all.state = "rejected" THEN Rejected("Failed to fetch disaster data")
    ELSE Fulfilled(FilterDisasters(o, all.value[1], all.value[2], all.value[3]))

\* The response of feed f arrives: the adapter maps it or fails, and if this
\* settles Promise.all the rest of getAllDisasters runs.  Responses that
\* arrive after the call has settled change nothing the call returns and are
\* not modelled.
Respond(c, f, response) ==
    LET s == [slots[c] EXCEPT ![f] = AdapterOutcome(f, response)]
        all == PromiseAll(s)
        out == GetAllOutcome(options[c], all)
    IN /\ op[c] = "getAllDisasters"
       /\ pc[c] = "pending"
       /\ slots[c][f].state = "pending"
       /\ slots' = [slots EXCEPT ![c] = s]
       /\ received' = [received EXCEPT ![c][f] = Some(response)]
       /\ IF all.state = "pending"
          THEN UNCHANGED <<pc, result>>
          ELSE /\ result' = [result EXCEPT ![c] = out]
               /\ pc' = [pc EXCEPT ![c] =
                            IF out.state = "fulfilled" THEN "resolved" ELSE "rejected"]
       /\ reply' = [reply EXCEPT ![c] =
                       IF IsSome(query[c]) /\ all.state # "pending"
                       THEN Some(DisastersRouteReply(out)) ELSE @]
       /\ UNCHANGED <<apiKey, op, options, invoked, requests, disasters, stats, query,
                      distance>>

\* The caller has consumed the settled promise; nothing of the call remains.
Return(c) ==
    /\ pc[c] \in {"resolved", "rejected"}
    /\ op' = [op EXCEPT ![c] = "none"]
    /\ pc' = [pc EXCEPT ![c] = "idle"]
    /\ options' = [options EXCEPT ![c] = NoOptions]
    /\ slots' = [slots EXCEPT ![c] = [f \in Feeds |-> NoPromise]]
    /\ received' = [received EXCEPT ![c] = [f \in Feeds |-> None]]
    /\ invoked' = [invoked EXCEPT ![c] = {}]
    /\ requests' = [requests EXCEPT ![c] = {}]
    /\ result' = [result EXCEPT ![c] = NoPromise]
    /\ disasters' = [disasters EXCEPT ![c] = <<>>]
    /\ stats' = [stats EXCEPT ![c] = None]
    /\ query' = [query EXCEPT ![c] = None]
    /\ reply' = [reply EXCEPT ![c] = None]
    /\ distance' = [distance EXCEPT ![c] = None]
    /\ UNCHANGED apiKey

\* What the upstream may answer to a request.
UpstreamResponses(q) ==
    IF q.feed = "usgs" THEN USGSResponses
    ELSE IF q.feed = "noaa" THEN NOAAResponses
    ELSE OneCallResponses(q.params[1], q.params[2])

\* A direct call of an OpenWeatherMap fetcher, up to its axios.get: without
\* an API key it returns [] at once.
CallAdapter(c, name, url, lat, lon) ==
    /\ pc[c] = "idle"
    /\ op' = [op EXCEPT ![c] = name]
    /\ options' = [options EXCEPT ![c] = Options(None, None, None, Some(lat), Some(lon), None)]
    /\ invoked' = [invoked EXCEPT ![c] = {"owm"}]
    /\ received' = [received EXCEPT ![c] = [f \in Feeds |-> None]]
    /\ IF OWMKeyMissing(apiKey)
       THEN /\ pc' = [pc EXCEPT ![c] = "resolved"]
            /\ requests' = [requests EXCEPT ![c] = {}]
            /\ slots' = [slots EXCEPT ![c] = [f \in Feeds |-> NoPromise]]
            /\ result' = [result EXCEPT ![c] = Fulfilled(<<>>)]
       ELSE /\ pc' = [pc EXCEPT ![c] = "pending"]
            /\ requests' = [requests EXCEPT ![c] = {Request("owm", url, <<lat, lon>>)}]
            /\ slots' = [slots EXCEPT ![c] =
                            [f \in Feeds |-> IF f = "owm" THEN Pending ELSE NoPromise]]
            /\ result' = [result EXCEPT ![c] = Pending]
    /\ UNCHANGED <<apiKey, disasters, stats, query, reply, distance>>

CallFetchCurrentWeather(c, lat, lon) ==
    CallAdapter(c, "fetchCurrentWeather", "weather", lat, lon)

CallFetchWeatherOneCall(c, lat, lon) ==
    CallAdapter(c, "fetchWeatherOneCall", "onecall", lat, lon)

\* The response to a direct fetcher call arrives.
AdapterRespond(c, response) ==
    LET out == IF op[c] = "fetchCurrentWeather" THEN fetchCurrentWeather(response)
               ELSE fetchWeatherOneCall(response)
    IN /\ op[c] \in {"fetchCurrentWeather", "fetchWeatherOneCall"}
       /\ pc[c] = "pending"
       /\ slots' = [slots EXCEPT ![c]["owm"] = out]
       /\ received' = [received EXCEPT ![c]["owm"] = Some(response)]
       /\ result' = [result EXCEPT ![c] = out]
       /\ pc' = [pc EXCEPT ![c] = "resolved"]
       /\ UNCHANGED <<apiKey, op, options, invoked, requests, disasters, stats, query, reply, distance>>

AdapterResponses(q) ==
    IF q.url = "weather" THEN CurrentWeatherResponses(q.params[1], q.params[2])
    ELSE AdapterOneCallResponses(q.params[1], q.params[2])

\* The requests of call c that are still unanswered, when c runs one of ops.
Outstanding(c, ops) ==
    IF op[c] \in ops /\ pc[c] = "pending"
    THEN {q \in requests[c] : slots[c][q.feed].state = "pending"}
    ELSE {}

Next ==
    \E c \in {1} :
        \/ \E o \in AllOptions : GetAllDisasters(c, o)
        \/ \E q \in Outstanding(c, {"getAllDisasters"}) :
               \E r \in UpstreamResponses(q) : Respond(c, q.feed, r)
        \/ \E p \in Centres : CallFetchCurrentWeather(c, p[1], p[2])
        \/ \E p \in Centres : CallFetchWeatherOneCall(c, p[1], p[2])
        \/ \E q \in Outstanding(c, {"fetchCurrentWeather", "fetchWeatherOneCall"}) :
               \E r \in AdapterResponses(q) : AdapterRespond(c, r)
        \/ Return(c)

Spec == Init /\ [][Next]_vars

-----------------------------------------------------------------------------
(* Two getAllDisasters calls in flight at once, on a small set of inputs    *)

ConcOptions ==
    { NoOptions,
      Options(Some(<<DisasterType.Storm>>), None, None, Some(1), Some(1), Some(15)) }

ConcResponses(q) ==
    IF q.feed = "usgs"
    THEN { OkResponse([features |-> <<USGSFeature("us1", 55000, "Quito", 0, 0)>>]),
           ErrorResponse("network") }
    ELSE IF q.feed = "noaa"
    THEN { OkResponse([features |->
                         <<NOAAFeature("nws4", "Winter Storm Watch", Some("Moderate"),
                                       "Ridge", Point(1, 1))>>]),
           ErrorResponse("status") }
    ELSE OneCallResponses(q.params[1], q.params[2])

NextConc ==
    \E c \in Calls :
        \/ \E o \in ConcOptions : GetAllDisasters(c, o)
        \/ \E q \in Outstanding(c, {"getAllDisasters"}) :
               \E r \in ConcResponses(q) : Respond(c, q.feed, r)
        \/ Return(c)

SpecConc == Init /\ [][NextConc]_vars

-----------------------------------------------------------------------------
(* getDisastersByLocation, getDisasterStats and the /api/disasters/stats    *)
(* route, on a small set of inputs                                          *)

\* getDisastersByLocation(latitude, longitude, radius = 100, options = {}),
\* lines 79-84: resolve the time range and call fetchEarthquakeData; the
\* three fetches are awaited one after the other.
GetDisastersByLocation(c, lat, lon, radius, o) ==
    LET timeRange == mapTimeRangeToValue(IF IsSome(o.timeRange) /\ TruthyStr(o.timeRange[1])
                                         THEN o.timeRange[1] ELSE "24h")
    IN /\ pc[c] = "idle"
       /\ op' = [op EXCEPT ![c] = "getDisastersByLocation"]
       /\ pc' = [pc EXCEPT ![c] = "pending"]
       /\ options' = [options EXCEPT ![c] =
                         Options(o.types, o.alertTypes, o.timeRange, Some(lat), Some(lon),
                                 IF IsSome(radius) THEN radius ELSE Some(100))]
       /\ invoked' = [invoked EXCEPT ![c] = {"usgs"}]
       /\ requests' = [requests EXCEPT ![c] =
                          {Request("usgs", USGSEndpoint(timeRange), <<timeRange>>)}]
       /\ slots' = [slots EXCEPT ![c] =
                       [f \in Feeds |-> IF f = "usgs" THEN Pending ELSE NoPromise]]
       /\ received' = [received EXCEPT ![c] = [f \in Feeds |-> None]]
       /\ result' = [result EXCEPT ![c] = Pending]
       /\ UNCHANGED <<apiKey, disasters, stats, query, reply, distance>>

\* The feed getDisastersByLocation awaits after feed f.
NextFeed(f) == IF f = "usgs" THEN "noaa" ELSE "owm"

\* getDisastersByLocation, lines 84-123: the awaited fetch of feed f settles.
\* A rejection ends the call; otherwise the next adapter is called, and after
\* the last one the lists are filtered and returned.  Without an API key
\* fetchWeatherOneCall returns [] without a request, and the call goes on in
\* the same turn.
LocationRespond(c, f, response) ==
    LET out == AdapterOutcome(f, response)
        o == options[c]
        n == NextFeed(f)
        skip == f = "noaa" /\ OWMKeyMissing(apiKey)
        last == f = "owm" \/ skip
        s == [slots[c] EXCEPT ![f] = out,
                              ![n] = IF f = "owm" THEN out
                                     ELSE IF out.state = "rejected" THEN NoPromise
                                     ELSE IF skip THEN Fulfilled(<<>>)
                                     ELSE Pending]
    IN /\ op[c] = "getDisastersByLocation"
       /\ pc[c] = "pending"
       /\ slots[c][f].state = "pending"
       /\ received' = [received EXCEPT ![c][f] = Some(response)]
       /\ slots' = [slots EXCEPT ![c] = s]
       /\ IF out.state = "rejected"
          THEN /\ result' = [result EXCEPT ![c] =
                                Rejected("Failed to fetch disaster data for location")]
               /\ pc' = [pc EXCEPT ![c] = "rejected"]
               /\ UNCHANGED <<invoked, requests>>
          ELSE IF last
          THEN /\ result' = [result EXCEPT ![c] =
                                Fulfilled(FilterDisastersByLocation(
                                    o, s["usgs"].value, s["noaa"].value, s["owm"].value))]
               /\ pc' = [pc EXCEPT ![c] = "resolved"]
               /\ invoked' = [invoked EXCEPT ![c] = @ \cup (IF skip THEN {"owm"} ELSE {})]
               /\ UNCHANGED requests
          ELSE /\ invoked' = [invoked EXCEPT ![c] = @ \cup {n}]
               /\ requests' = [requests EXCEPT ![c] = @ \cup
                                  { IF n = "noaa" THEN Request("noaa", "alerts/active", <<>>)
                                    ELSE Request("owm", "onecall",
                                                 <<o.latitude[1], o.longitude[1]>>) }]
               /\ UNCHANGED <<pc, result>>
       /\ UNCHANGED <<apiKey, op, options, disasters, stats, query, reply, distance>>

\* getDisasterStats builds new arrays (filter, map) and a new Set; it writes
\* nothing into the array it is given.
ArrayAfterStats(list) == list

\* routes.ts, /api/disasters/stats: getAllDisasters() has resolved and the
\* handler passes the list to getDisasterStats.
StatsRoute(c) ==
    /\ op[c] = "getAllDisasters"
    /\ options[c] = NoOptions
    /\ pc[c] = "resolved"
    /\ stats[c] = None
    /\ stats' = [stats EXCEPT ![c] = Some(getDisasterStats(result[c].value))]
    /\ disasters' = [disasters EXCEPT ![c] = ArrayAfterStats(result[c].value)]
    /\ UNCHANGED <<apiKey, op, pc, options, slots, received, invoked, requests, result,
                   query, reply, distance>>

LocOptions ==
    { NoOptions,
      Options(None, None, None, Some(1), Some(1), Some(20)) }

LocFilters ==
    { NoOptions,
      Options(Some(<<DisasterType.Storm, DisasterType.Earthquake>>),
              Some(<<AlertType.Warning, AlertType.Watch>>), None, None, None, None) }

\* A geometry of a type the adapter does not handle.
LineString ==
    Some([type |-> "LineString",
          coordinates |-> << <<1, 1>>, <<2, 1>>, <<3, 1>>, <<4, 1>>, <<5, 1>> >>])

LocResponses(q) ==
    IF q.feed = "usgs"
    THEN { OkResponse([features |-> <<USGSFeature("us1", 55000, "Quito", 0, 0),
                                      USGSFeature("us3", 30000, "Cusco", 1, 0),
                                      USGSFeature("us4", 45000, "Piura", 30, 1)>>]),
           ErrorResponse("network") }
    ELSE IF q.feed = "noaa"
    THEN { OkResponse([features |->
                         <<NOAAFeature("nws2", "Tornado Watch", Some("Moderate"), "Plains", None),
                           NOAAFeature("nws1", "Flood Warning", Some("Severe"), "Coast",
                                       Point(1, 1))>>]),
           OkResponse([features |->
                         <<NOAAFeature("nws5", "Red Flag Warning", Some("Severe"), "Hills",
                                       LineString),
                           NOAAFeature("nws6", "Flood Watch", Some("Moderate"), "Delta",
                                       Point(30, 1))>>]),
           ErrorResponse("status") }
    ELSE OneCallResponses(q.params[1], q.params[2])

NextLoc ==
    \E c \in {1} :
        \/ \E o \in LocOptions : GetAllDisasters(c, o)
        \/ \E q \in Outstanding(c, {"getAllDisasters"}) :
               \E r \in LocResponses(q) : Respond(c, q.feed, r)
        \/ \E p \in Centres, radius \in {None, Some(10)}, o \in LocFilters :
               GetDisastersByLocation(c, p[1], p[2], radius, o)
        \/ \E q \in Outstanding(c, {"getDisastersByLocation"}) :
               \E r \in LocResponses(q) : LocationRespond(c, q.feed, r)
        \/ StatsRoute(c)
        \/ Return(c)

SpecLoc == Init /\ [][NextLoc]_vars

-----------------------------------------------------------------------------
(* getDisasterStats called directly on every short list of events           *)

\* Longest list handed to getDisasterStats.
MaxStatsLen == 4

StatsEvent(id, alertType, location) ==
    [id |-> id, disasterType |-> DisasterType.Storm, alertType |-> alertType,
     location |-> location, latitude |-> "0", longitude |-> "0", source |-> "NOAA"]

\* Locations differing only in case or in surrounding spaces are different
\* strings.
StatsEvents ==
    { StatsEvent("e1", AlertType.Warning, "A"),
      StatsEvent("e2", AlertType.Watch, "B"),
      StatsEvent("e3", AlertType.Advisory, "C"),
      StatsEvent("e4", AlertType.Warning, "a"),
      StatsEvent("e5", AlertType.Watch, "A ") }

StatsLists == SeqsUpTo(StatsEvents, MaxStatsLen)

\* getDisasterStats(list): synchronous, the call returns in the same step.
GetDisasterStats(c, list) ==
    /\ pc[c] = "idle"
    /\ op' = [op EXCEPT ![c] = "getDisasterStats"]
    /\ pc' = [pc EXCEPT ![c] = "resolved"]
    /\ stats' = [stats EXCEPT ![c] = Some(getDisasterStats(list))]
    /\ disasters' = [disasters EXCEPT ![c] = ArrayAfterStats(list)]
    /\ UNCHANGED <<apiKey, options, slots, received, invoked, requests, result,
                   query, reply, distance>>

NextStats ==
    \E c \in {1} :
        \/ \E list \in StatsLists : GetDisasterStats(c, list)
        \/ Return(c)

SpecStats == Init /\ [][NextStats]_vars

-----------------------------------------------------------------------------
(* The seismic and the weather-alert adapter called directly on rich        *)
(* payloads, and getAllDisasters called with every time-range token         *)

\* Longest payload of a direct fetchEarthquakeData / fetchWeatherAlerts call.
MaxFeatures == 2

\* The documented tokens and some others; "" is falsy.
TimeRangeTokens ==
    {"1h", "hour", "24h", "1d", "1day", "7d", "7days", "week", "30d", "30days", "month",
     "", "2h", "WEEK", "year"}

OptTokens == {None} \cup {Some(t) : t \in TimeRangeTokens}

TokenOptions ==
    { Options(None, None, tr, g[1], g[2], None) :
        tr \in OptTokens, g \in { <<None, None>>, <<Some(1), Some(1)>> } }

\* Magnitudes at and next to the two thresholds, in units of 0.0001.
Magnitudes == {0, 39999, 40000, 49999, 50000, 72000}

FeedQuakes == {USGSFeature("us" \o NatToString(m), m, "Quito", 0, 0) : m \in Magnitudes}

Polygon(rings) == Some([type |-> "Polygon", coordinates |-> rings])
MultiPolygon(polygons) == Some([type |-> "MultiPolygon", coordinates |-> polygons])

UnitSquare == << <<0, 0>>, <<0, 10>>, <<10, 10>>, <<10, 0>> >>
FarSquare == << <<20, 20>>, <<20, 40>>, <<40, 40>>, <<40, 20>> >>
Triangle == << <<-30, 6>>, <<0, 0>>, <<-30, -3>> >>

\* Alerts that differ in severity, in event name or in geometry.  The
\* coordinates arrays of different geometry types have different lengths.
FeedAlerts ==
    { NOAAFeature("s1", "Tornado Warning", Some("Extreme"), "Plains", Point(1, 1)),
      NOAAFeature("s2", "Tornado Warning", Some("Severe"), "Plains", Point(1, 1)),
      NOAAFeature("s3", "Tornado Warning", Some("Moderate"), "Plains", Point(1, 1)),
      NOAAFeature("s4", "Tornado Warning", Some("Minor"), "Plains", Point(1, 1)),
      NOAAFeature("s5", "Tornado Warning", Some("Unknown"), "Plains", Point(1, 1)),
      NOAAFeature("s6", "Tornado Warning", None, "Plains", Point(1, 1)),
      NOAAFeature("s7", "Tornado Warning", Some("severe"), "Plains", Point(1, 1)),
      NOAAFeature("s8", "Tornado Warning", Some("constructor"), "Plains", Point(1, 1)),
      NOAAFeature("e1", "TORNADO WARNING", Some("Severe"), "Plains", Point(1, 1)),
      NOAAFeature("e2", "Special Marine Warning", Some("Severe"), "Coast", Point(1, 1)),
      NOAAFeature("e3", "Dust Storm Warning", Some("Severe"), "Desert", Point(1, 1)),
      NOAAFeature("e4", "", Some("Severe"), "Nowhere", Point(1, 1)),
      NOAAFeature("e5", "Coastal Flood and Wildfire Advisory", Some("Minor"), "Coast",
                  Point(1, 1)),
      NOAAFeature("e6", "Wildfire Smoke before Flash Flood", Some("Minor"), "Hills",
                  Point(1, 1)),
      NOAAFeature("e7", "Fire Weather Watch, then Tornado", Some("Moderate"), "Hills",
                  Point(1, 1)),
      NOAAFeature("e8", "Red Flag Warning", Some("Severe"), "Hills", Point(1, 1)),
      NOAAFeature("g1", "Flood Warning", Some("Minor"), "Delta", None),
      NOAAFeature("g2", "Flood Warning", Some("Minor"), "Delta", Point(-15, 23)),
      NOAAFeature("g3", "Flood Warning", Some("Minor"), "Delta", Polygon(<<UnitSquare>>)),
      NOAAFeature("g4", "Flood Warning", Some("Minor"), "Delta",
                  Polygon(<<Triangle, FarSquare, UnitSquare>>)),
      NOAAFeature("g5", "Flood Warning", Some("Minor"), "Delta",
                  MultiPolygon(<< <<UnitSquare, FarSquare>>, <<FarSquare>>, <<Triangle>>,
                                  <<FarSquare, Triangle>> >>)),
      NOAAFeature("g6", "Flood Warning", Some("Minor"), "Delta", LineString) }

FeedResponses(q) ==
    IF q.feed = "usgs"
    THEN Responses({[features |-> fs] : fs \in SeqsUpTo(FeedQuakes, MaxFeatures)})
    ELSE Responses({[features |-> fs] : fs \in SeqsUpTo(FeedAlerts, MaxFeatures)})

\* fetchEarthquakeData(timeRange = '1day') up to its axios.get.
CallFetchEarthquakeData(c, timeRange) ==
    LET tr == IF IsSome(timeRange) THEN timeRange[1] ELSE "1day"
    IN /\ pc[c] = "idle"
       /\ op' = [op EXCEPT ![c] = "fetchEarthquakeData"]
       /\ pc' = [pc EXCEPT ![c] = "pending"]
       /\ options' = [options EXCEPT ![c] = Options(None, None, timeRange, None, None, None)]
       /\ invoked' = [invoked EXCEPT ![c] = {"usgs"}]
       /\ requests' = [requests EXCEPT ![c] = {Request("usgs", USGSEndpoint(tr), <<tr>>)}]
       /\ slots' = [slots EXCEPT ![c] =
                       [f \in Feeds |-> IF f = "usgs" THEN Pending ELSE NoPromise]]
       /\ received' = [received EXCEPT ![c] = [f \in Feeds |-> None]]
       /\ result' = [result EXCEPT ![c] = Pending]
       /\ UNCHANGED <<apiKey, disasters, stats, query, reply, distance>>

\* fetchWeatherAlerts() up to its axios.get; no area is given.
CallFetchWeatherAlerts(c) ==
    /\ pc[c] = "idle"
    /\ op' = [op EXCEPT ![c] = "fetchWeatherAlerts"]
    /\ pc' = [pc EXCEPT ![c] = "pending"]
    /\ options' = [options EXCEPT ![c] = NoOptions]
    /\ invoked' = [invoked EXCEPT ![c] = {"noaa"}]
    /\ requests' = [requests EXCEPT ![c] = {Request("noaa", "alerts/active", <<>>)}]
    /\ slots' = [slots EXCEPT ![c] =
                    [f \in Feeds |-> IF f = "noaa" THEN Pending ELSE NoPromise]]
    /\ received' = [received EXCEPT ![c] = [f \in Feeds |-> None]]
    /\ result' = [result EXCEPT ![c] = Pending]
    /\ UNCHANGED <<apiKey, disasters, stats, query, reply, distance>>

\* The response to a direct fetchEarthquakeData / fetchWeatherAlerts call
\* arrives: the adapter maps it, or rethrows.
FeedRespond(c, f, response) ==
    LET out == AdapterOutcome(f, response)
    IN /\ op[c] \in {"fetchEarthquakeData", "fetchWeatherAlerts"}
       /\ pc[c] = "pending"
       /\ slots[c][f].state = "pending"
       /\ slots' = [slots EXCEPT ![c][f] = out]
       /\ received' = [received EXCEPT ![c][f] = Some(response)]
       /\ result' = [result EXCEPT ![c] = out]
       /\ pc' = [pc EXCEPT ![c] = IF out.state = "fulfilled" THEN "resolved" ELSE "rejected"]
       /\ UNCHANGED <<apiKey, op, options, invoked, requests, disasters, stats, query, reply, distance>>

NextFeeds ==
    \E c \in {1} :
        \/ \E o \in TokenOptions : GetAllDisasters(c, o)
        \/ \E q \in Outstanding(c, {"getAllDisasters"}) :
               \E r \in ConcResponses(q) : Respond(c, q.feed, r)
        \/ \E tr \in {None, Some("week"), Some("7days")} : CallFetchEarthquakeData(c, tr)
        \/ CallFetchWeatherAlerts(c)
        \/ \E q \in Outstanding(c, {"fetchEarthquakeData", "fetchWeatherAlerts"}) :
               \E r \in FeedResponses(q) : FeedRespond(c, q.feed, r)
        \/ Return(c)

SpecFeeds == Init /\ [][NextFeeds]_vars

-----------------------------------------------------------------------------
(* server/routes.ts: GET /api/disasters                                     *)

\* String.prototype.split(',')
RECURSIVE Split(_)
Split(s) ==
    IF \E i \in 1..Len(s) : CharAt(s, i) = ","
    THEN LET k == CHOOSE i \in 1..Len(s) :
                    CharAt(s, i) = "," /\ \A j \in 1..(i - 1) : CharAt(s, j) # ","
         IN <<SubSeq(s, 1, k - 1)>> \o Split(SubSeq(s, k + 1, Len(s)))
    ELSE <<s>>

\* req.query.types ? req.query.types.split(',') : undefined
QueryList(s) == IF IsSome(s) /\ TruthyStr(s[1]) THEN Some(Split(s[1])) ELSE None

\* req.query.lat ? parseFloat(req.query.lat) : undefined, in tenths of a
\* degree; parseFloat of a string that starts with no number is NaN.
QueryCoordinate(s) ==
    IF IsSome(s) /\ TruthyStr(s[1])
    THEN (IF IsSome(ParseFloat(s[1])) THEN ParseFloat(s[1]) ELSE Some(NaN))
    ELSE None

\* req.query.radius ? parseFloat(req.query.radius) : 100, in km (the model
\* keeps radii in whole km).
QueryRadius(s) ==
    IF IsSome(s) /\ TruthyStr(s[1])
    THEN (IF IsSome(ParseFloat(s[1])) THEN Some(Div(ParseFloat(s[1])[1], 10))
          ELSE Some(NaN))
    ELSE Some(100)

Query(types, alertTypes, timeRange, lat, lon, radius) ==
    [types |-> types, alertTypes |-> alertTypes, timeRange |-> timeRange,
     lat |-> lat, lon |-> lon, radius |-> radius]

\* Lines 17-38: the options object the handler passes to getAllDisasters.
RouteOptions(q) ==
    Options(QueryList(q.types), QueryList(q.alertTypes), q.timeRange,
            QueryCoordinate(q.lat), QueryCoordinate(q.lon), QueryRadius(q.radius))

\* The handler up to its await: it parses the query string and calls
\* getAllDisasters; no statement of it rejects a request.
DisastersRoute(c, q) ==
    /\ StartGetAllDisasters(c, RouteOptions(q))
    /\ query' = [query EXCEPT ![c] = Some(q)]
    /\ UNCHANGED reply

\* Query strings: none, a centre with and without a radius, type filters,
\* and parameters that are no numbers or no members of the enumerations.
RouteQueries ==
    { Query(None, None, None, None, None, None),
      Query(None, None, None, Some("0.1"), Some("0.1"), Some("20")),
      Query(None, None, Some("week"), Some("0.1"), Some("0.1"), None),
      Query(Some("storm,earthquake"), Some("warning"), None, None, None, None),
      Query(None, None, None, Some("north"), Some("0.1"), Some("20")),
      Query(None, None, None, Some("0.1"), Some("0.1"), Some("far")),
      Query(Some("storm,volcano"), None, None, None, None, None),
      Query(None, Some("severe"), None, None, None, None) }

\* One payload per feed, and every kind of upstream error.
RouteResponses(q) ==
    IF q.feed = "usgs"
    THEN Responses({[features |-> <<USGSFeature("us1", 55000, "Quito", 0, 0),
                                    USGSFeature("us4", 45000, "Piura", 30, 1)>>]})
    ELSE IF q.feed = "noaa"
    THEN Responses({[features |->
                       <<NOAAFeature("nws4", "Winter Storm Watch", Some("Moderate"),
                                     "Ridge", Point(1, 1)),
                         NOAAFeature("nws7", "Flood Warning", Some("constructor"),
                                     "Ridge", Point(1, 1))>>]})
    ELSE OneCallResponses(q.params[1], q.params[2])

NextRoute ==
    \E c \in {1} :
        \/ \E q \in RouteQueries : DisastersRoute(c, q)
        \/ GetAllDisasters(c, NoOptions)
        \/ \E q \in Outstanding(c, {"getAllDisasters"}) :
               \E r \in RouteResponses(q) : Respond(c, q.feed, r)
        \/ StatsRoute(c)
        \/ Return(c)

SpecRoute == Init /\ [][NextRoute]_vars

-----------------------------------------------------------------------------
(* The three calculateDistance functions applied to pairs of points         *)

\* Latitudes and longitudes in tenths of a degree, on both sides of the
\* equator and of the prime meridian.
GeoCoordinates == {-18, -7, -1, 0, 1, 12, 18}

GeoPoints == {[lat |-> lat, lon |-> lon] : lat \in GeoCoordinates, lon \in GeoCoordinates}

\* calculateDistance(a.lat, a.lon, b.lat, b.lon) in index.ts, usgs.ts and
\* noaa.ts: synchronous, each call returns in the same step.
CalculateDistance(c, a, b) ==
    /\ pc[c] = "idle"
    /\ op' = [op EXCEPT ![c] = "calculateDistance"]
    /\ pc' = [pc EXCEPT ![c] = "resolved"]
    /\ distance' = [distance EXCEPT ![c] =
                       Some([from |-> a, to |-> b,
                             index |-> calculateDistance(a.lat, a.lon, b.lat, b.lon),
                             usgs |-> usgsCalculateDistance(a.lat, a.lon, b.lat, b.lon),
                             noaa |-> noaaCalculateDistance(a.lat, a.lon, b.lat, b.lon)])]
    /\ UNCHANGED <<apiKey, options, slots, received, invoked, requests, result,
                   disasters, stats, query, reply>>

NextGeo ==
    \E c \in {1} :
        \/ \E a \in GeoPoints, b \in GeoPoints : CalculateDistance(c, a, b)
        \/ Return(c)

SpecGeo == Init /\ [][NextGeo]_vars

-----------------------------------------------------------------------------
(* getAllDisasters and getDisastersByLocation side by side: call 1 is a     *)
(* getAllDisasters call, call 2 a getDisastersByLocation call               *)

\* Centres on and off the equator, <<latitude, longitude>>; radii in km.
EquivCentres == {<<0, 1>>, <<1, 1>>}
EquivRadii == {0, 10, 20}

\* Events at (0, 0), at (0, 0.1), at (0.1, 0.1) and far away, and an alert
\* without geometry.
EquivResponses(q) ==
    IF q.feed = "usgs"
    THEN { OkResponse([features |-> <<USGSFeature("us1", 55000, "Quito", 0, 0),
                                      USGSFeature("us3", 30000, "Cusco", 1, 0),
                                      USGSFeature("us4", 45000, "Piura", 30, 1)>>]),
           ErrorResponse("network") }
    ELSE IF q.feed = "noaa"
    THEN { OkResponse([features |->
                         <<NOAAFeature("nws2", "Tornado Watch", Some("Moderate"), "Plains", None),
                           NOAAFeature("nws1", "Flood Warning", Some("Severe"), "Coast",
                                       Point(1, 1)),
                           NOAAFeature("nws6", "Flood Watch", Some("Moderate"), "Delta",
                                       Point(30, 1))>>]) }
    ELSE { OkResponse(OneCallData(
               OneCallBody(Thunderstorm, 180, None, Some(<<OWMAlert("Fire Weather Watch", 50)>>)),
               q.params[1], q.params[2])),
           ErrorResponse("status") }

NextEquiv ==
    \/ \E p \in EquivCentres, r \in EquivRadii, f \in LocFilters :
           GetAllDisasters(1, Options(f.types, f.alertTypes, None,
                                      Some(p[1]), Some(p[2]), Some(r)))
    \/ \E q \in Outstanding(1, {"getAllDisasters"}) :
           \E r \in EquivResponses(q) : Respond(1, q.feed, r)
    \/ \E p \in EquivCentres, r \in EquivRadii, f \in LocFilters :
           GetDisastersByLocation(2, p[1], p[2], Some(r), f)
    \/ \E q \in Outstanding(2, {"getDisastersByLocation"}) :
           \E r \in EquivResponses(q) : LocationRespond(2, q.feed, r)
    \/ \E c \in Calls : Return(c)

SpecEquiv == Init /\ [][NextEquiv]_vars

-----------------------------------------------------------------------------
(* The two OpenWeatherMap fetchers called directly on every short list of   *)
(* condition codes and of alerts                                            *)

\* Longest weather array and longest alerts array of a response.
MaxCodes == 2
MaxOWMAlerts == 2

\* Condition codes of the OpenWeatherMap table: clear sky, moderate rain,
\* snow, thunderstorm, very heavy rain, heavy shower snow, squalls, tornado.
ConditionCodes == {800, 501, 601, 211, 502, 622, 771, 781}

WeatherArrays ==
    UNION {[1..k -> {Weather(id, "Group") : id \in ConditionCodes}] : k \in 1..MaxCodes}

\* Three different alerts, two of them starting at the same second.
NativeAlerts ==
    { OWMAlert("Flood Watch", 50), OWMAlert("Wind Advisory", 50),
      OWMAlert("Red Flag Warning", 60) }

NativeAlertArrays == {None} \cup {Some(a) : a \in SeqsUpTo(NativeAlerts, MaxOWMAlerts)}

WeatherResponses(q) ==
    IF q.url = "weather"
    THEN Responses({ CurrentWeatherData(w, 50, None, q.params[1], q.params[2]) :
                       w \in WeatherArrays })
    ELSE Responses({ OneCallData(OneCallBody(w, 50, None, a), q.params[1], q.params[2]) :
                       w \in WeatherArrays, a \in NativeAlertArrays })

NextWeather ==
    \E c \in {1} :
        \/ \E p \in Centres : CallFetchCurrentWeather(c, p[1], p[2])
        \/ \E p \in Centres : CallFetchWeatherOneCall(c, p[1], p[2])
        \/ \E q \in Outstanding(c, {"fetchCurrentWeather", "fetchWeatherOneCall"}) :
               \E r \in WeatherResponses(q) : AdapterRespond(c, r)
        \/ Return(c)

SpecWeather == Init /\ [][NextWeather]_vars

-----------------------------------------------------------------------------
(* Properties                                                               *)

GetAllCall(c) == op[c] = "getAllDisasters"
GetAllResolved(c) == GetAllCall(c) /\ pc[c] = "resolved"
Settled(c) == pc[c] \in {"resolved", "rejected"}

\* The upstream answered feed f of call c with an error.
FeedFailed(c, f) == IsSome(received[c][f]) /\ received[c][f][1].kind # "ok"

\* The lists the three adapters handed to getAllDisasters, concatenated.
Fetched(c) == slots[c]["usgs"].value \o slots[c]["noaa"].value \o slots[c]["owm"].value

RECURSIVE IsSubseq(_, _)
IsSubseq(s, t) ==
    IF Len(s) = 0 THEN TRUE
    ELSE IF Len(t) = 0 THEN FALSE
    ELSE IF Head(s) = Head(t) THEN IsSubseq(Tail(s), Tail(t))
    ELSE IsSubseq(s, Tail(t))

\* Warning > Watch > Advisory
Rank(alertType) ==
    IF alertType = AlertType.Warning THEN 3
    ELSE IF alertType = AlertType.Watch THEN 2
    ELSE 1

MaxAlertType(a, b) == IF Rank(a) >= Rank(b) THEN a ELSE b

\* The event d lies within radius km of (lat, lon).
EventWithin(d, lat, lon, radius) ==
    /\ IsSome(ParseFloat(d.latitude)) /\ IsSome(ParseFloat(d.longitude))
    /\ calculateDistance(lat, lon, ParseFloat(d.latitude)[1], ParseFloat(d.longitude)[1])
          <= radius * 1000

\* C1: whenever the filter of a getAllDisasters call carries a latitude, a
\* longitude and a radius, every returned event lies within radius km of the
\* centre.
C1_ReturnedWithinRadius ==
    \A c \in Calls :
        (GetAllResolved(c) /\ IsSome(options[c].latitude) /\ IsSome(options[c].longitude)
           /\ IsSome(options[c].radius))
        => \A i \in 1..Len(result[c].value) :
               EventWithin(result[c].value[i], options[c].latitude[1],
                           options[c].longitude[1], options[c].radius[1])

\* The level the claim derives from the 3 h rainfall alone.
RainLevel(rain) ==
    IF IsSome(rain) /\ IsSome(rain[1].h3) /\ rain[1].h3[1] >= RAIN_WARNING_THRESHOLD
    THEN AlertType.Warning
    ELSE IF IsSome(rain) /\ IsSome(rain[1].h3) /\ rain[1].h3[1] >= RAIN_WATCH_THRESHOLD
    THEN AlertType.Watch
    ELSE AlertType.Advisory

\* C2: the event fetchCurrentWeather emits has the maximum of the level
\* implied by the wind speed and the level implied by the 3 h rainfall.
C2_CurrentAlertTypeIsMax ==
    \A c \in Calls :
        (op[c] = "fetchCurrentWeather" /\ pc[c] = "resolved" /\ Len(result[c].value) > 0)
        => LET data == received[c]["owm"][1].data[1]
           IN result[c].value[1].alertType
                 = MaxAlertType(WindAlertType(data.wind.speed), RainLevel(data.rain))

\* Some of the first 12 hourly entries has at least 25/3 mm of rain.
HeavyInFirstTwelve(hourly) ==
    IsSome(hourly) /\ \E i \in 1..Len(hourly[1]) :
        /\ i <= 12
        /\ IsSome(hourly[1][i].rain) /\ IsSome(hourly[1][i].rain[1].h1)
        /\ 3 * hourly[1][i].rain[1].h1[1] >= RAIN_WATCH_THRESHOLD

\* C3: the condition-derived event of fetchWeatherOneCall is never below the
\* level the wind speed implies, is at least Watch when one of the first 12
\* hourly entries has heavy rain, and is the wind level otherwise.
C3_ForecastNeverLowers ==
    \A c \in Calls :
        (op[c] = "fetchWeatherOneCall" /\ pc[c] = "resolved"
           /\ IsSome(received[c]["owm"]) /\ received[c]["owm"][1].kind = "ok"
           /\ IsSome(FindSevere(received[c]["owm"][1].data[1].current.weather)))
        => LET data == received[c]["owm"][1].data[1]
               wind == WindAlertType(data.current.wind_speed)
               cond == result[c].value[Len(result[c].value)]
           IN /\ Rank(cond.alertType) >= Rank(wind)
              /\ HeavyInFirstTwelve(data.hourly) => Rank(cond.alertType) >= Rank(AlertType.Watch)
              /\ ~HeavyInFirstTwelve(data.hourly) => cond.alertType = wind

\* C4: a getAllDisasters call whose seismic or weather-alert fetch failed is
\* rejected with the fixed error and returns no events; a resolved call had
\* all three fetches fulfilled and returns the filtered concatenation of the
\* complete adapter outputs.
C4_AllOrNothing ==
    \A c \in Calls : GetAllCall(c) =>
        /\ (FeedFailed(c, "usgs") \/ FeedFailed(c, "noaa"))
             => /\ pc[c] = "rejected"
                /\ result[c] = Rejected("Failed to fetch disaster data")
        /\ pc[c] = "resolved"
             => /\ \A f \in Feeds : slots[c][f].state = "fulfilled"
                /\ received[c]["usgs"][1].kind = "ok" /\ received[c]["noaa"][1].kind = "ok"
                /\ result[c].value
                     = FilterDisasters(options[c],
                           mapUSGSResponseToDisasters(received[c]["usgs"][1].data[1]),
                           mapNOAAResponseToDisasters(received[c]["noaa"][1].data[1]),
                           slots[c]["owm"].value)

\* C4 witness: the seismic fetch failed after the two other fetches had
\* succeeded with events, and the call is rejected.
C4_Witness ==
    \E c \in Calls :
        /\ GetAllCall(c) /\ pc[c] = "rejected" /\ FeedFailed(c, "usgs")
        /\ slots[c]["noaa"].state = "fulfilled" /\ Len(slots[c]["noaa"].value) > 0
        /\ slots[c]["owm"].state = "fulfilled" /\ Len(slots[c]["owm"].value) > 0

C6_MissingKey ==
    ~apiKey => \A c \in Calls :
        /\ \A q \in requests[c] : q.feed # "owm"
        /\ op[c] \in {"fetchCurrentWeather", "fetchWeatherOneCall"}
             => pc[c] = "resolved" /\ result[c] = Fulfilled(<<>>)
        /\ GetAllCall(c)
             => /\ slots[c]["owm"] = Fulfilled(<<>>)
                /\ pc[c] = "rejected" => (FeedFailed(c, "usgs") \/ FeedFailed(c, "noaa"))
                /\ pc[c] = "resolved"
                     => result[c].value
                          = FilterDisasters(options[c], slots[c]["usgs"].value,
                                            slots[c]["noaa"].value, <<>>)

\* C6 witness: no key, a call with latitude and longitude returned events.
C6_Witness ==
    /\ ~apiKey
    /\ \E c \in Calls :
          /\ GetAllResolved(c) /\ "owm" \in invoked[c]
          /\ TruthyNum(options[c].latitude) /\ TruthyNum(options[c].longitude)
          /\ Len(result[c].value) > 0

\* C7: getAllDisasters calls the weather-condition adapter exactly when a
\* latitude and a longitude are both present, and always calls the two others.
C7_WeatherCalledIffLatLon ==
    \A c \in Calls : GetAllCall(c) =>
        /\ ("owm" \in invoked[c])
             <=> (IsSome(options[c].latitude) /\ IsSome(options[c].longitude))
        /\ {"usgs", "noaa"} \subseteq invoked[c]

\* The set a types / alertTypes option stands for; absent and empty alike
\* stand for "every value".
Allowed(arr, Universe) ==
    IF IsSome(arr) /\ Len(arr[1]) > 0 THEN Range(arr[1]) ELSE Universe

\* C8: the returned list holds exactly the fetched events whose disasterType
\* and alertType are members of the given sets (and that pass the location
\* filter when it applies), in their original order; an absent or empty set
\* removes nothing.
C8_TypeFiltersAreSetMembership ==
    \A c \in Calls : GetAllResolved(c) =>
        LET o == options[c]
            Keep(d) ==
                /\ d.disasterType \in Allowed(o.types, DisasterTypes)
                /\ d.alertType \in Allowed(o.alertTypes, AlertTypes)
                /\ LocationFilterApplies(o)
                     => WithinRadius(d, o.latitude[1], o.longitude[1], o.radius[1])
        IN result[c].value = SelectSeq(Fetched(c), Keep)

\* C8 witness: a two-element types set kept some events and removed others.
C8_Witness ==
    \E c \in Calls :
        /\ GetAllResolved(c)
        /\ IsSome(options[c].types) /\ Len(options[c].types[1]) = 2
        /\ Len(result[c].value) >= 2
        /\ Len(result[c].value) < Len(Fetched(c))

\* C9: the returned list is a subsequence of seismic events ++ weather-alert
\* events ++ weather-condition events.
C9_ResultIsSubsequence ==
    \A c \in Calls : GetAllResolved(c) => IsSubseq(result[c].value, Fetched(c))

\* C9 witness: events of all three adapters are returned after a filter
\* removed some.
C9_Witness ==
    \E c \in Calls :
        /\ GetAllResolved(c)
        /\ {result[c].value[i].source : i \in 1..Len(result[c].value)}
              = {"USGS", "NOAA", "OpenWeatherMap"}
        /\ Len(result[c].value) < Len(Fetched(c))

\* What the adapter of feed f makes of the response call c received for it;
\* a fetch that was never issued contributes the empty list.
AdapterOutput(c, f) ==
    IF IsSome(received[c][f]) THEN AdapterOutcome(f, received[c][f][1]).value ELSE <<>>

\* C10: all three promises of a call exist as soon as it has started; the
\* call stays pending while none is rejected and one is pending, is rejected
\* only when one is rejected, and when resolved returns the list determined
\* by its own options and the responses it received, whatever the order of
\* arrival and whatever the other call does.
C10_ConcurrentFetches ==
    \A c \in Calls : GetAllCall(c) =>
        /\ \A f \in Feeds : slots[c][f].state # "none"
        /\ {"usgs", "noaa"} \subseteq {q.feed : q \in requests[c]}
        /\ pc[c] = "pending"
             <=> /\ \E f \in Feeds : slots[c][f].state = "pending"
                 /\ \A f \in Feeds : slots[c][f].state # "rejected"
        /\ pc[c] = "rejected" <=> \E f \in Feeds : slots[c][f].state = "rejected"
        /\ pc[c] = "resolved"
             => result[c].value
                  = FilterDisasters(options[c], AdapterOutput(c, "usgs"),
                                    AdapterOutput(c, "noaa"), AdapterOutput(c, "owm"))

\* C10 witness: one call has returned events while the other, called with
\* other options, is still pending with its last-issued fetch answered
\* before its first.
C10_Witness ==
    \E c, d \in Calls :
        /\ c # d /\ GetAllResolved(c) /\ Len(result[c].value) > 0
        /\ GetAllCall(d) /\ pc[d] = "pending" /\ options[d] # options[c]
        /\ IsSome(received[d]["owm"]) /\ slots[d]["usgs"].state = "pending"


-----------------------------------------------------------------------------
(* Aggregator frame and statistics                                          *)

AggregatorCall(c) == op[c] \in {"getAllDisasters", "getDisastersByLocation"}

\* How many elements of list are equal to e.
Occurrences(list, e) == Cardinality({i \in 1..Len(list) : list[i] = e})

\* C11: every event of a resolved getAllDisasters or getDisastersByLocation
\* result is an event one of the adapters produced in that call, with every
\* field as the adapter produced it, and occurs no more often than the
\* adapters produced it; and the list the stats route hands to
\* getDisasterStats is the same list after the call.
C11_AggregatorOnlyFilters ==
    \A c \in Calls :
        /\ (AggregatorCall(c) /\ pc[c] = "resolved")
             => /\ \A i \in 1..Len(result[c].value) :
                      /\ result[c].value[i] \in Range(Fetched(c))
                      /\ Occurrences(result[c].value, result[c].value[i])
                           <= Occurrences(Fetched(c), result[c].value[i])
                /\ IsSubseq(result[c].value, Fetched(c))
        /\ (AggregatorCall(c) /\ IsSome(stats[c])) => disasters[c] = result[c].value

\* C11 witness: a getDisastersByLocation call returned some, but not all, of
\* the events its adapters produced.
C11_Witness ==
    \E c \in Calls :
        /\ op[c] = "getDisastersByLocation" /\ pc[c] = "resolved"
        /\ IsSome(options[c].alertTypes)
        /\ Len(result[c].value) > 0
        /\ Len(result[c].value) < Len(Fetched(c))

RECURSIVE CountWhere(_, _)
\* The number of elements of list with alert type t, counted one by one.
CountWhere(list, t) ==
    IF Len(list) = 0 THEN 0
    ELSE (IF Head(list).alertType = t THEN 1 ELSE 0) + CountWhere(Tail(list), t)

\* The number of positions of list whose location occurs at no earlier
\* position.
DistinctLocations(list) ==
    Cardinality({i \in 1..Len(list) : \A j \in 1..(i - 1) : list[j].location # list[i].location})

\* The list with alert types [Warning, Warning, Watch, Advisory] at locations
\* [A, A, B, C].
StatsExample ==
    << StatsEvent("e1", AlertType.Warning, "A"), StatsEvent("e1", AlertType.Warning, "A"),
       StatsEvent("e2", AlertType.Watch, "B"), StatsEvent("e3", AlertType.Advisory, "C") >>

\* C12: getDisasterStats returns the number of Warning, Watch and Advisory
\* events and the number of distinct location strings under exact string
\* equality; the example list gives 2, 1, 1, 3 and the empty list 0, 0, 0, 0.
C12_StatsCounts ==
    \A c \in Calls :
        (op[c] = "getDisasterStats" /\ IsSome(stats[c]))
        => /\ stats[c][1].warnings = CountWhere(disasters[c], AlertType.Warning)
           /\ stats[c][1].watches = CountWhere(disasters[c], AlertType.Watch)
           /\ stats[c][1].advisories = CountWhere(disasters[c], AlertType.Advisory)
           /\ stats[c][1].affectedAreas = DistinctLocations(disasters[c])
           /\ disasters[c] = StatsExample
                => stats[c][1] = [warnings |-> 2, watches |-> 1, advisories |-> 1,
                                  affectedAreas |-> 3]
           /\ disasters[c] = <<>>
                => stats[c][1] = [warnings |-> 0, watches |-> 0, advisories |-> 0,
                                  affectedAreas |-> 0]

\* C12 witness: getDisasterStats has returned for a list in which two
\* locations differ only in case.
C12_Witness ==
    \E c \in Calls :
        /\ op[c] = "getDisasterStats" /\ IsSome(stats[c])
        /\ \E i, j \in 1..Len(disasters[c]) :
               /\ disasters[c][i].location = "A" /\ disasters[c][j].location = "a"
        /\ stats[c][1].affectedAreas >= 2


-----------------------------------------------------------------------------
(* Time ranges and the two feed adapters                                    *)

\* The request call c sent to the seismic feed.
UsgsRequest(c) == CHOOSE q \in requests[c] : q.feed = "usgs"

\* The documented tokens and the value each resolves to.
TimeRangeTable ==
    { <<"1h", "hour">>, <<"hour", "hour">>,
      <<"24h", "1day">>, <<"1d", "1day">>, <<"1day", "1day">>,
      <<"7d", "7days">>, <<"7days", "7days">>, <<"week", "7days">>,
      <<"30d", "30days">>, <<"30days", "30days">>, <<"month", "30days">> }

\* The value the table gives for an optional token; "1day" for every other
\* string and for an absent token.
Resolved(token) ==
    IF IsSome(token) /\ \E p \in TimeRangeTable : p[1] = token[1]
    THEN (CHOOSE p \in TimeRangeTable : p[1] = token[1])[2]
    ELSE "1day"

\* C13: the time range getAllDisasters hands to the seismic adapter is the
\* table's value for a documented token and '1day' for every other string and
\* for an absent token; it is always one of the four canonical values.
C13_TimeRangeResolution ==
    \A c \in Calls : GetAllCall(c) =>
        /\ UsgsRequest(c).params[1] = Resolved(options[c].timeRange)
        /\ UsgsRequest(c).params[1] \in {"hour", "1day", "7days", "30days"}
        /\ ~IsSome(options[c].timeRange) => UsgsRequest(c).params[1] = "1day"

\* C13 witness: a call with the token 'week' asked the seismic adapter for
\* '7days'.
C13_Witness ==
    \E c \in Calls :
        /\ GetAllCall(c) /\ options[c].timeRange = Some("week")
        /\ UsgsRequest(c).params[1] = "7days"

\* The feed file for each canonical window.
EndpointOfWindow ==
    { <<"hour", "all_hour.geojson">>, <<"1day", "all_day.geojson">>,
      <<"7days", "all_week.geojson">>, <<"30days", "all_month.geojson">> }

\* C14: the seismic endpoint a getAllDisasters call requests is the feed of
\* the window its token names (the daily feed for an unrecognised or absent
\* token), and the other requests of the call are determined by latitude,
\* longitude and the API key alone.
C14_EndpointFollowsToken ==
    \A c \in Calls : GetAllCall(c) =>
        /\ <<Resolved(options[c].timeRange), UsgsRequest(c).url>> \in EndpointOfWindow
        /\ requests[c] \ {UsgsRequest(c)}
             = {Request("noaa", "alerts/active", <<>>)}
               \cup (IF IsSome(options[c].latitude) /\ options[c].latitude[1] # 0
                        /\ IsSome(options[c].longitude) /\ options[c].longitude[1] # 0
                        /\ apiKey
                     THEN {Request("owm", "onecall",
                                   <<options[c].latitude[1], options[c].longitude[1]>>)}
                     ELSE {})

\* C14 witness: a call with the token 'month' and a centre requested the
\* monthly feed and the weather-condition feed.
C14_Witness ==
    \E c \in Calls :
        /\ GetAllCall(c) /\ options[c].timeRange = Some("month")
        /\ UsgsRequest(c).url = "all_month.geojson"
        /\ \E q \in requests[c] : q.feed = "owm"

\* The features of the payload call c received from feed f.
SentFeatures(c, f) == received[c][f][1].data[1].features

DirectResolved(c, name) == op[c] = name /\ pc[c] = "resolved"

\* C15: the seismic adapter emits one event per feature, in feed order, of
\* type Earthquake, with Warning from magnitude 5.0, Watch from 4.0 and
\* Advisory below.
C15_MagnitudeClassification ==
    \A c \in Calls : DirectResolved(c, "fetchEarthquakeData") =>
        LET features == SentFeatures(c, "usgs")
            events == result[c].value
        IN /\ Len(events) = Len(features)
           /\ \A i \in 1..Len(events) :
                  /\ events[i].id = features[i].id
                  /\ events[i].disasterType = "earthquake"
                  /\ events[i].alertType =
                       (IF features[i].properties.mag >= 50000 THEN "warning"
                        ELSE IF features[i].properties.mag >= 40000 THEN "watch"
                        ELSE "advisory")
                  /\ features[i].properties.mag = 50000 => events[i].alertType = "warning"
                  /\ features[i].properties.mag = 49999 => events[i].alertType = "watch"
                  /\ features[i].properties.mag = 40000 => events[i].alertType = "watch"
                  /\ features[i].properties.mag = 39999 => events[i].alertType = "advisory"
                  /\ features[i].properties.mag = 0 => events[i].alertType = "advisory"

\* C15 witness: a payload with magnitudes 4.9999 and 5.0, in that order, was
\* mapped.
C15_Witness ==
    \E c \in Calls :
        /\ DirectResolved(c, "fetchEarthquakeData")
        /\ Len(SentFeatures(c, "usgs")) = 2
        /\ SentFeatures(c, "usgs")[1].properties.mag = 49999
        /\ SentFeatures(c, "usgs")[2].properties.mag = 50000

\* The feature of the payload call c received from feed f that has this id.
SentFeature(c, f, id) ==
    LET features == SentFeatures(c, f)
    IN features[CHOOSE i \in 1..Len(features) : features[i].id = id]

\* C16: an emitted weather alert is Warning for severity Extreme or Severe,
\* Watch for Moderate, and Advisory for Minor, Unknown, an absent severity and
\* every other value.
C16_SeverityToAlertType ==
    \A c \in Calls : DirectResolved(c, "fetchWeatherAlerts") =>
        \A i \in 1..Len(result[c].value) :
            LET severity == SentFeature(c, "noaa", result[c].value[i].id).properties.severity
            IN result[c].value[i].alertType =
                 (IF severity \in {Some("Extreme"), Some("Severe")} THEN "warning"
                  ELSE IF severity = Some("Moderate") THEN "watch"
                  ELSE "advisory")

\* The lexicon keys no other key is a substring of, in lower case.
HazardWords ==
    {"tornado", "severe thunderstorm", "flood", "hurricane", "tropical storm",
     "winter storm", "blizzard", "tsunami", "red flag", "fire weather", "fire warning",
     "wildfire"}

Recognised(feature) ==
    LET event == ToLowerCase(feature.properties.event)
    IN \E w \in HazardWords : Includes(event, w)

\* C17: the weather-alert adapter emits exactly the alerts whose event name
\* contains a hazard word, whatever the case, in feed order; an alert with
\* another event name is dropped.
C17_UnrecognisedDropped ==
    \A c \in Calls : DirectResolved(c, "fetchWeatherAlerts") =>
        LET kept == SelectSeq(SentFeatures(c, "noaa"), Recognised)
        IN /\ Len(result[c].value) = Len(kept)
           /\ \A i \in 1..Len(kept) : result[c].value[i].id = kept[i].id

\* C17 witness: of 'Dust Storm Warning' followed by 'TORNADO WARNING' only
\* the second was emitted.
C17_Witness ==
    \E c \in Calls :
        /\ DirectResolved(c, "fetchWeatherAlerts")
        /\ Len(SentFeatures(c, "noaa")) = 2
        /\ SentFeatures(c, "noaa")[1].properties.event = "Dust Storm Warning"
        /\ SentFeatures(c, "noaa")[2].properties.event = "TORNADO WARNING"
        /\ Len(result[c].value) = 1

\* The positions of the lexicon whose key is a case-insensitive substring of
\* the event name.
MatchingKeys(eventName) ==
    LET event == ToLowerCase(eventName)
    IN {i \in 1..Len(noaaLowerKeys) : Includes(event, noaaLowerKeys[i])}

\* C18: the disasterType of an emitted weather alert is the value of the
\* first lexicon key, in declaration order, that its event name contains; an
\* event name with a flood key and a fire key is a flood, wherever the words
\* stand in the name.
C18_FirstDeclaredKeyWins ==
    \A c \in Calls : DirectResolved(c, "fetchWeatherAlerts") =>
        \A i \in 1..Len(result[c].value) :
            LET event == SentFeature(c, "noaa", result[c].value[i].id).properties.event
                hits == MatchingKeys(event)
                first == CHOOSE k \in hits : \A j \in hits : k <= j
            IN /\ result[c].value[i].disasterType = noaaEventToDisasterType[first][2]
               /\ event = "Coastal Flood and Wildfire Advisory"
                    => result[c].value[i].disasterType = "flood"
               /\ event = "Wildfire Smoke before Flash Flood"
                    => result[c].value[i].disasterType = "flood"
               /\ event = "Fire Weather Watch, then Tornado"
                    => result[c].value[i].disasterType = "storm"

\* C18 witness: an alert naming a wildfire before a flash flood was emitted.
C18_Witness ==
    \E c \in Calls :
        /\ DirectResolved(c, "fetchWeatherAlerts")
        /\ \E i \in 1..Len(result[c].value) :
               SentFeature(c, "noaa", result[c].value[i].id).properties.event
                 = "Wildfire Smoke before Flash Flood"

\* The ring is not empty and the event's coordinates, times the number of
\* vertices, are the sums of the vertices' coordinates.
IsMeanOf(event, ring) ==
    /\ Len(ring) > 0
    /\ IsSome(ParseFloat(event.latitude)) /\ IsSome(ParseFloat(event.longitude))
    /\ Len(ring) * ParseFloat(event.latitude)[1] = SumCoord(ring, 2)
    /\ Len(ring) * ParseFloat(event.longitude)[1] = SumCoord(ring, 1)

\* C19: a Point gives its own longitude and latitude, a Polygon the mean of
\* the vertices of its first ring, a MultiPolygon the mean of the vertices of
\* the first ring of its first polygon; the unit square gives (0.5, 0.5).
C19_CoordinatesByGeometry ==
    \A c \in Calls : DirectResolved(c, "fetchWeatherAlerts") =>
        \A i \in 1..Len(result[c].value) :
            LET event == result[c].value[i]
                geometry == SentFeature(c, "noaa", event.id).geometry
            IN IsSome(geometry) =>
                 /\ geometry[1].type = "Point"
                      => /\ ParseFloat(event.longitude) = Some(geometry[1].coordinates[1])
                         /\ ParseFloat(event.latitude) = Some(geometry[1].coordinates[2])
                 /\ geometry[1].type = "Polygon"
                      => IsMeanOf(event, geometry[1].coordinates[1])
                 /\ geometry[1].type = "MultiPolygon"
                      => IsMeanOf(event, geometry[1].coordinates[1][1])
                 /\ (/\ geometry[1].type \in {"Polygon", "MultiPolygon"}
                     /\ UnitSquare \in {geometry[1].coordinates[1], geometry[1].coordinates[1][1]})
                      => event.latitude = "0.5" /\ event.longitude = "0.5"

\* C19 witness: a MultiPolygon with several rings and polygons and a Polygon
\* with several rings were resolved in one payload.
C19_Witness ==
    \E c \in Calls :
        /\ DirectResolved(c, "fetchWeatherAlerts")
        /\ Len(result[c].value) = 2
        /\ result[c].value[1].id = "g5" /\ result[c].value[1].latitude = "0.5"
        /\ result[c].value[2].id = "g4" /\ result[c].value[2].longitude = "-2"


-----------------------------------------------------------------------------
(* Events without coordinates                                               *)

\* The payload gives the alert no coordinates the adapter can resolve.
NoValidCoordinates(feature) ==
    \/ ~IsSome(feature.geometry)
    \/ feature.geometry[1].type \notin {"Point", "Polygon", "MultiPolygon"}

\* The call filters by location: getDisastersByLocation always does,
\* getAllDisasters when latitude, longitude and radius are given.
GeoFiltered(c) ==
    \/ op[c] = "getDisastersByLocation"
    \/ /\ GetAllCall(c)
       /\ IsSome(options[c].latitude) /\ IsSome(options[c].longitude)
       /\ IsSome(options[c].radius)

\* C20: a weather alert whose payload gives no valid coordinates is never in
\* the result of a call that filters by location, and is in the result of a
\* getAllDisasters call without any filter.
C20_NoCoordinatesNeverRetained ==
    \A c \in Calls :
        (AggregatorCall(c) /\ pc[c] = "resolved")
        => /\ GeoFiltered(c)
                => \A i \in 1..Len(result[c].value) :
                       result[c].value[i].source = "NOAA"
                         => ~NoValidCoordinates(SentFeature(c, "noaa", result[c].value[i].id))
           /\ options[c] = NoOptions
                => \A k \in 1..Len(SentFeatures(c, "noaa")) :
                       (NoValidCoordinates(SentFeatures(c, "noaa")[k])
                          /\ Recognised(SentFeatures(c, "noaa")[k]))
                         => \E i \in 1..Len(result[c].value) :
                                result[c].value[i].id = SentFeatures(c, "noaa")[k].id

-----------------------------------------------------------------------------
(* Event ids and the closed enumerations                                    *)

\* A direct call of one of the two OpenWeatherMap fetchers has resolved with
\* what it made of a 2xx response.
WeatherCallAnswered(c, name) ==
    /\ op[c] = name /\ pc[c] = "resolved"
    /\ IsSome(received[c]["owm"]) /\ received[c]["owm"][1].kind = "ok"

\* The body of the response call c received from OpenWeatherMap.
WeatherBody(c) == received[c]["owm"][1].data[1]

\* The native alerts array of a One Call body ([] when it is absent).
NativeAlertsOf(data) == IF IsSome(data.alerts) THEN data.alerts[1] ELSE <<>>

PairwiseDistinct(s) == \A i, j \in 1..Len(s) : i # j => s[i] # s[j]

\* C21: when the alerts of a One Call response are pairwise distinct, the
\* events fetchWeatherOneCall returns for it have pairwise distinct ids; and
\* fetchCurrentWeather never returns two events with one id.
C21_IdsUniquePerCall ==
    \A c \in Calls :
        /\ (WeatherCallAnswered(c, "fetchWeatherOneCall")
               /\ PairwiseDistinct(NativeAlertsOf(WeatherBody(c))))
             => PairwiseDistinct([i \in 1..Len(result[c].value) |-> result[c].value[i].id])
        /\ WeatherCallAnswered(c, "fetchCurrentWeather")
             => PairwiseDistinct([i \in 1..Len(result[c].value) |-> result[c].value[i].id])

\* C22: every event an adapter returned has a disasterType of the closed set
\* of four and an alertType of the closed set of three, and every event of
\* the seismic adapter is an Earthquake.
C22_TypesAlwaysSet ==
    \A c \in Calls : \A f \in Feeds :
        slots[c][f].state = "fulfilled"
        => \A i \in 1..Len(slots[c][f].value) :
               LET d == slots[c][f].value[i]
               IN /\ d.disasterType \in DisasterTypes
                  /\ d.alertType \in AlertTypes
                  /\ f = "usgs" => d.disasterType = DisasterType.Earthquake


-----------------------------------------------------------------------------
(* The weather-condition adapter: how many events a call returns            *)

\* The thunderstorm codes of the OpenWeatherMap table (200 to 232).
ThunderstormCodes == {200, 201, 202, 210, 211, 212, 221, 230, 231, 232}
ExtremeRainCodes == {502, 503, 504, 511, 522, 531}
HeavySnowCodes == {602, 622}
TornadoCode == 781
SquallCode == 771

\* The severe set without the squall code, and with it.
SevereWithoutSquall ==
    ThunderstormCodes \cup ExtremeRainCodes \cup HeavySnowCodes \cup {TornadoCode}
SevereWithSquall == SevereWithoutSquall \cup {SquallCode}

\* The condition codes of a weather array that belong to Codes.
CodesIn(weather, Codes) == {i \in 1..Len(weather) : weather[i].id \in Codes}

\* C23 as stated: fetchCurrentWeather returns exactly one event when some
\* code of the response is a thunderstorm, extreme-rain, heavy-snow or
\* tornado code, and no event otherwise.
C23_OneEventIffSevereWithoutSquall ==
    \A c \in Calls :
        WeatherCallAnswered(c, "fetchCurrentWeather")
        => Len(result[c].value)
             = (IF CodesIn(WeatherBody(c).weather, SevereWithoutSquall) # {} THEN 1 ELSE 0)

\* C23 amended: the severe set also holds the squall code 771.  Exactly one
\* event when some code of the response is in the set, however many are, and
\* no event when none is.
C23_OneEventIffSevere ==
    \A c \in Calls :
        WeatherCallAnswered(c, "fetchCurrentWeather")
        => Len(result[c].value)
             = (IF CodesIn(WeatherBody(c).weather, SevereWithSquall) # {} THEN 1 ELSE 0)

\* C23 witness: a response with two severe codes gave one event.
C23_Witness ==
    \E c \in Calls :
        /\ WeatherCallAnswered(c, "fetchCurrentWeather")
        /\ Cardinality(CodesIn(WeatherBody(c).weather, SevereWithSquall)) = 2
        /\ Len(result[c].value) = 1

StartsWith(s, prefix) == Len(s) >= Len(prefix) /\ SubSeq(s, 1, Len(prefix)) = prefix

\* C24: fetchWeatherOneCall returns one alert-derived event for every entry
\* of the alerts array, in order and whatever the condition codes are,
\* followed by one condition-derived event exactly when a current condition
\* code is severe; nothing is merged, so the length is the number of alerts
\* plus 0 or 1.
C24_AlertsPlusCondition ==
    \A c \in Calls :
        WeatherCallAnswered(c, "fetchWeatherOneCall")
        => LET alerts == NativeAlertsOf(WeatherBody(c))
               n == Len(alerts)
               severe == CodesIn(WeatherBody(c).current.weather, SevereWithSquall) # {}
               out == result[c].value
           IN /\ Len(out) = n + (IF severe THEN 1 ELSE 0)
              /\ \A i \in 1..Len(out) :
                     IF i <= n
                     THEN /\ StartsWith(out[i].id, "owm-alert-")
                          /\ out[i] = OWMAlertToDisaster(WeatherBody(c), alerts[i])
                     ELSE StartsWith(out[i].id, "owm-onecall-")

\* C24 witness: a response with a severe code and twice the same alert gave
\* three events.
C24_Witness ==
    \E c \in Calls :
        /\ WeatherCallAnswered(c, "fetchWeatherOneCall")
        /\ Len(NativeAlertsOf(WeatherBody(c))) = 2
        /\ NativeAlertsOf(WeatherBody(c))[1] = NativeAlertsOf(WeatherBody(c))[2]
        /\ Len(result[c].value) = 3


-----------------------------------------------------------------------------
(* The HTTP boundary                                                        *)

\* The string is no number parseFloat can read.
NotNumeric(s) == IsSome(s) /\ TruthyStr(s[1]) /\ ~IsSome(ParseFloat(s[1]))

\* Some element of the comma-separated list is no member of Universe.
OutsideSet(s, Universe) ==
    IsSome(s) /\ TruthyStr(s[1]) /\ \E i \in 1..Len(Split(s[1])) : Split(s[1])[i] \notin Universe

Malformed(q) ==
    \/ NotNumeric(q.lat) \/ NotNumeric(q.lon) \/ NotNumeric(q.radius)
    \/ OutsideSet(q.types, DisasterTypes) \/ OutsideSet(q.alertTypes, AlertTypes)

\* C25: a request to /api/disasters with a malformed filter parameter calls
\* no adapter and issues no upstream request, and the options handed to
\* getAllDisasters never hold a malformed value.
C25_MalformedRejectedAtBoundary ==
    \A c \in Calls :
        (IsSome(query[c]) /\ Malformed(query[c][1]))
        => /\ invoked[c] = {}
           /\ requests[c] = {}
           /\ ~GetAllCall(c)

\* C26: a getAllDisasters call that fails is rejected with the message
\* 'Failed to fetch disaster data' whichever feed failed and however, and
\* the /api/disasters handler then answers 500 with that one message; so any
\* two failing runs answer alike.
C26_GenericFailure ==
    \A c \in Calls :
        (GetAllCall(c) /\ pc[c] = "rejected")
        => /\ result[c] = Rejected("Failed to fetch disaster data")
           /\ IsSome(query[c])
                => reply[c] = Some([status |-> 500,
                                    message |-> "Failed to fetch disaster data",
                                    disasters |-> <<>>])

\* C26 witness: a request was answered 500 after the weather-alert feed sent
\* a payload the adapter could not map.
C26_Witness ==
    \E c \in Calls :
        /\ GetAllCall(c) /\ pc[c] = "rejected" /\ IsSome(query[c])
        /\ FeedFailed(c, "noaa") /\ received[c]["noaa"][1].kind = "malformed"
        /\ slots[c]["noaa"].error = "Failed to fetch weather alerts"
        /\ IsSome(reply[c]) /\ reply[c][1].status = 500


-----------------------------------------------------------------------------
(* The distance function                                                    *)

-----------------------------------------------------------------------------
(* The two aggregation entry points compared, and the radius                *)

LocationCall(c) == op[c] = "getDisastersByLocation"

\* Call d received, for every feed call c asked, what call c received.
SamePayloads(c, d) ==
    \A f \in Feeds : IsSome(received[c][f]) => received[d][f] = received[c][f]

\* C28: a resolved getDisastersByLocation call and a resolved
\* getAllDisasters call with the same latitude, longitude, radius, types,
\* alertTypes and timeRange that received the same upstream payloads
\* returned the same list.
C28_SameListEitherWay ==
    \A c, d \in Calls :
        (/\ GetAllResolved(c) /\ LocationCall(d) /\ pc[d] = "resolved"
         /\ options[c] = options[d]
         /\ SamePayloads(c, d) /\ SamePayloads(d, c))
        => result[c].value = result[d].value

\* What the function call c runs returns for the lists its adapters returned
\* and its options, with radius r in the place of its radius.
ResultWithRadius(c, r) ==
    LET o == [options[c] EXCEPT !.radius = Some(r)]
    IN IF GetAllCall(c)
       THEN FilterDisasters(o, slots[c]["usgs"].value, slots[c]["noaa"].value,
                            slots[c]["owm"].value)
       ELSE FilterDisastersByLocation(o, slots[c]["usgs"].value, slots[c]["noaa"].value,
                                      slots[c]["owm"].value)

\* The event lies at the centre of call c.
AtCentre(d, c) ==
    /\ ParseFloat(d.latitude) = options[c].latitude
    /\ ParseFloat(d.longitude) = options[c].longitude

\* The event lies at exactly the radius of call c from its centre.
AtRadius(d, c) ==
    /\ IsSome(ParseFloat(d.latitude)) /\ IsSome(ParseFloat(d.longitude))
    /\ calculateDistance(options[c].latitude[1], options[c].longitude[1],
                         ParseFloat(d.latitude)[1], ParseFloat(d.longitude)[1])
          = options[c].radius[1] * 1000

\* C29: for a resolved getAllDisasters or getDisastersByLocation call with a
\* centre and a radius r >= 0, the result is a subsequence of what the same
\* call returns with any radius r2 >= r; an adapter event that passes the
\* type filters and lies at exactly r from the centre is in the result; and
\* with r = 0 every returned event lies at the centre.
C29_RadiusMonotone ==
    \A c \in Calls :
        (/\ AggregatorCall(c) /\ pc[c] = "resolved"
         /\ IsSome(options[c].latitude) /\ IsSome(options[c].longitude)
         /\ IsSome(options[c].radius))
        => LET r == options[c].radius[1]
               out == result[c].value
               typed == FilterByAlertType(FilterByType(Fetched(c), options[c].types),
                                          options[c].alertTypes)
           IN /\ \A r2 \in EquivRadii : r2 >= r => IsSubseq(out, ResultWithRadius(c, r2))
              /\ \A i \in 1..Len(typed) : AtRadius(typed[i], c) => typed[i] \in Range(out)
              /\ r = 0 => \A i \in 1..Len(out) : AtCentre(out[i], c)


-----------------------------------------------------------------------------
(* Statistics of adapter output                                             *)

\* C30: whenever getDisasterStats has returned for a list of events, the
\* three counts add up to the length of the list, affectedAreas is at most
\* the length, and affectedAreas is 0 exactly when the list is empty.
C30_StatsAddUp ==
    \A c \in Calls :
        IsSome(stats[c])
        => LET n == Len(disasters[c])
               st == stats[c][1]
           IN /\ st.warnings + st.watches + st.advisories = n
              /\ st.affectedAreas <= n
              /\ st.affectedAreas = 0 <=> n = 0

=============================================================================
